---- MODULE Spec2Model ----
(***************************************************************************)
(* Bank-statement ingestion of bankerbot-budget-buddy: the column          *)
(* classifier (utils/columnDetector.ts), the value parsers                 *)
(* (utils/dateParser.ts, utils/fileParser.ts), the per-file parse          *)
(* (parseCSV / parseXLS / parseFile) and the upload loop                   *)
(* (components/FileUpload.tsx) over the transaction store                  *)
(* (context/BankerBotContext.tsx).                                         *)
(*                                                                         *)
(* A JavaScript string is a sequence of one-character strings, so that the *)
(* regular expressions of the source are evaluated character by character. *)
(* Column indices are 0-based, as in the source.                           *)
(***************************************************************************)
EXTENDS Integers, Sequences, FiniteSets, TLC

(***************************************************************************)
(* Characters and regular expressions                                      *)
(***************************************************************************)
Digit == {"0", "1", "2", "3", "4", "5", "6", "7", "8", "9"}
LowerAlpha == {"a", "b", "c", "d", "e", "f", "g", "h", "i", "j", "k", "l", "m",
               "n", "o", "p", "q", "r", "s", "t", "u", "v", "w", "x", "y", "z"}
UpperAlpha == {"A", "B", "C", "D", "E", "F", "G", "H", "I", "J", "K", "L", "M",
               "N", "O", "P", "Q", "R", "S", "T", "U", "V", "W", "X", "Y", "Z"}
Alpha == LowerAlpha \cup UpperAlpha
\* \s of the regular expressions, and what String.prototype.trim strips
Whitespace == {" ", "\t"}
\* [$£€¥₹]: the four non-ASCII symbols are written as named one-symbol tokens
Currency == {"$", "pound", "euro", "yen", "rupee"}
Sign == {"-", "+"}

UpperToLower ==
  [c \in UpperAlpha |->
     CASE c = "A" -> "a" [] c = "B" -> "b" [] c = "C" -> "c" [] c = "D" -> "d"
       [] c = "E" -> "e" [] c = "F" -> "f" [] c = "G" -> "g" [] c = "H" -> "h"
       [] c = "I" -> "i" [] c = "J" -> "j" [] c = "K" -> "k" [] c = "L" -> "l"
       [] c = "M" -> "m" [] c = "N" -> "n" [] c = "O" -> "o" [] c = "P" -> "p"
       [] c = "Q" -> "q" [] c = "R" -> "r" [] c = "S" -> "s" [] c = "T" -> "t"
       [] c = "U" -> "u" [] c = "V" -> "v" [] c = "W" -> "w" [] c = "X" -> "x"
       [] c = "Y" -> "y" [] c = "Z" -> "z"]

\* String.prototype.toLowerCase
toLowerCase(s) == [i \in 1..Len(s) |-> IF s[i] \in UpperAlpha THEN UpperToLower[s[i]] ELSE s[i]]

RECURSIVE trimStart(_), trimEnd(_)
trimStart(s) == IF s # <<>> /\ Head(s) \in Whitespace THEN trimStart(Tail(s)) ELSE s
trimEnd(s) == IF s # <<>> /\ s[Len(s)] \in Whitespace THEN trimEnd(SubSeq(s, 1, Len(s) - 1)) ELSE s
\* String.prototype.trim
trim(s) == trimEnd(trimStart(s))

\* String.prototype.includes
includes(s, w) == \E i \in 1..(Len(s) - Len(w) + 1) : SubSeq(s, i, i + Len(w) - 1) = w

\* Regular expressions as syntax trees: a character class, a literal, a
\* concatenation, an alternation, a repetition {lo,hi} (hi = -1: unbounded).
Set(cs) == [t |-> "set", cs |-> cs]
NotSet(cs) == [t |-> "nset", cs |-> cs]
Lit(w) == [t |-> "lit", w |-> w]
Cat(rs) == [t |-> "cat", rs |-> rs]
Alt(rs) == [t |-> "alt", rs |-> rs]
Rep(r, lo, hi) == [t |-> "rep", r |-> r, lo |-> lo, hi |-> hi]
Opt(r) == Rep(r, 0, 1)
Star(r) == Rep(r, 0, -1)
Plus(r) == Rep(r, 1, -1)

\* Ends(re, s, i): the positions j such that re matches s[i..j-1]
RECURSIVE Ends(_, _, _), EndsCat(_, _, _, _), EndsRep(_, _, _, _, _)
Ends(re, s, i) ==
  CASE re.t = "set" -> IF i <= Len(s) /\ s[i] \in re.cs THEN {i + 1} ELSE {}
    [] re.t = "nset" -> IF i <= Len(s) /\ s[i] \notin re.cs THEN {i + 1} ELSE {}
    [] re.t = "lit" -> IF i + Len(re.w) - 1 <= Len(s) /\ SubSeq(s, i, i + Len(re.w) - 1) = re.w
                       THEN {i + Len(re.w)} ELSE {}
    [] re.t = "cat" -> EndsCat(re.rs, 1, s, {i})
    [] re.t = "alt" -> UNION {Ends(re.rs[k], s, i) : k \in DOMAIN re.rs}
    [] re.t = "rep" -> EndsRep(re, s, {i}, 0, {})
EndsCat(rs, k, s, from) ==
  IF k > Len(rs) \/ from = {} THEN from
  ELSE EndsCat(rs, k + 1, s, UNION {Ends(rs[k], s, i) : i \in from})
EndsRep(re, s, frontier, n, acc) ==
  LET acc2 == IF n >= re.lo THEN acc \cup frontier ELSE acc
      next == UNION {Ends(re.r, s, i) : i \in frontier}
  IN IF frontier = {} \/ (re.hi >= 0 /\ n >= re.hi) THEN acc2
     ELSE EndsRep(re, s, IF n >= re.lo THEN next \ acc2 ELSE next, n + 1, acc2)

\* /^re$/.test(s), /^re/.test(s), /re/.test(s)
TestFull(re, s) == (Len(s) + 1) \in Ends(re, s, 1)
TestPrefix(re, s) == Ends(re, s, 1) # {}
TestSearch(re, s) == \E i \in 1..(Len(s) + 1) : Ends(re, s, i) # {}

D(lo, hi) == Rep(Set(Digit), lo, hi)
WS == Star(Set(Whitespace))
\* word1\s*word2
Two(a, b) == Cat(<<Lit(a), WS, Lit(b)>>)

(***************************************************************************)
(* ColumnDetector: the header patterns                                     *)
(***************************************************************************)
\* Object.entries(patterns): the roles in their declaration order
Fields == <<"date", "amount", "description", "account">>
Roles == {"date", "amount", "description", "account"}

\* ColumnDetector.patterns, each /^...$/i, tested on the trimmed, lower-cased header
patterns ==
  [date |-> <<
     Cat(<<Opt(Cat(<<Lit(<<"t","r","a","n","s","a","c","t","i","o","n">>), WS>>)), Lit(<<"d","a","t","e">>)>>),
     Cat(<<Opt(Alt(<<Cat(<<Lit(<<"p","o","s","t","i","n","g">>), WS>>), Cat(<<Lit(<<"p","o","s","t","e","d">>), WS>>)>>)), Lit(<<"d","a","t","e">>)>>),
     Two(<<"e","f","f","e","c","t","i","v","e">>, <<"d","a","t","e">>),
     Two(<<"v","a","l","u","e">>, <<"d","a","t","e">>),
     Two(<<"s","e","t","t","l","e","m","e","n","t">>, <<"d","a","t","e">>),
     Two(<<"p","r","o","c","e","s","s">>, <<"d","a","t","e">>),
     Lit(<<"d","a","t","e">>), Lit(<<"t","i","m","e">>), Lit(<<"t","i","m","e","s","t","a","m","p">>), Lit(<<"w","h","e","n">>),
     Lit(<<"d","a","t","e","d">>), Lit(<<"p","o","s","t","e","d">>), Lit(<<"o","n">>)>>,
   amount |-> <<
     Lit(<<"a","m","o","u","n","t">>), Lit(<<"v","a","l","u","e">>), Lit(<<"s","u","m">>), Lit(<<"t","o","t","a","l">>),
     Lit(<<"c","r","e","d","i","t">>), Lit(<<"d","e","b","i","t">>),
     Two(<<"t","r","a","n","s","a","c","t","i","o","n">>, <<"a","m","o","u","n","t">>),
     Two(<<"n","e","t">>, <<"a","m","o","u","n","t">>),
     Two(<<"g","r","o","s","s">>, <<"a","m","o","u","n","t">>),
     Lit(<<"b","a","l","a","n","c","e">>), Lit(<<"m","o","n","e","y">>), Lit(<<"$">>),
     Lit(<<"a","u","d">>), Lit(<<"u","s","d">>), Lit(<<"g","b","p">>), Lit(<<"e","u","r">>)>>,
   description |-> <<
     Lit(<<"d","e","s","c","r","i","p","t","i","o","n">>), Lit(<<"m","e","m","o">>), Lit(<<"d","e","t","a","i","l","s">>),
     Two(<<"t","r","a","n","s","a","c","t","i","o","n">>, <<"d","e","t","a","i","l","s">>),
     Lit(<<"r","e","f","e","r","e","n","c","e">>), Lit(<<"p","a","r","t","i","c","u","l","a","r","s">>), Lit(<<"n","a","r","r","a","t","i","v","e">>),
     Lit(<<"m","e","r","c","h","a","n","t">>), Lit(<<"p","a","y","e","e">>), Lit(<<"v","e","n","d","o","r">>), Lit(<<"s","u","p","p","l","i","e","r">>),
     Lit(<<"c","o","m","m","e","n","t">>), Lit(<<"n","o","t","e">>), Lit(<<"r","e","m","a","r","k","s">>)>>,
   account |-> <<
     Lit(<<"a","c","c","o","u","n","t">>),
     Two(<<"a","c","c">>, <<"n","o">>),
     Two(<<"a","c","c","o","u","n","t">>, <<"n","u","m","b","e","r">>),
     Two(<<"a","c","c","o","u","n","t">>, <<"n","a","m","e">>),
     Lit(<<"b","a","n","k">>), Lit(<<"i","n","s","t","i","t","u","t","i","o","n">>), Lit(<<"s","o","u","r","c","e">>),
     Lit(<<"f","r","o","m">>), Lit(<<"t","o">>)>>]

\* the /.../i alternations of smartGuess, searched anywhere in the header
likelyPatterns ==
  [date |-> Alt(<<Lit(<<"d","a","t","e">>), Lit(<<"t","i","m","e">>), Lit(<<"w","h","e","n">>), Lit(<<"p","o","s","t","e","d">>), Lit(<<"o","n">>)>>),
   amount |-> Alt(<<Lit(<<"a","m","o","u","n","t">>), Lit(<<"t","o","t","a","l">>), Lit(<<"v","a","l","u","e">>), Lit(<<"s","u","m">>), Lit(<<"$">>),
                    Lit(<<"m","o","n","e","y">>), Lit(<<"c","r","e","d","i","t">>), Lit(<<"d","e","b","i","t">>)>>),
   description |-> Alt(<<Lit(<<"d","e","s","c">>), Lit(<<"m","e","m","o">>), Lit(<<"d","e","t","a","i","l">>), Lit(<<"m","e","r","c","h","a","n","t">>),
                         Lit(<<"p","a","y","e","e">>), Lit(<<"r","e","f","e","r","e","n","c","e">>), Lit(<<"p","a","r","t","i","c","u","l","a","r">>)>>),
   account |-> Alt(<<Lit(<<"a","c","c","o","u","n","t">>), Lit(<<"a","c","c">>), Lit(<<"b","a","n","k">>), Lit(<<"s","o","u","r","c","e">>), Lit(<<"f","r","o","m">>)>>)]

(***************************************************************************)
(* Raw cell values (any[][]): null/undefined, a string, a number, or an    *)
(* object whose conversion to a string throws (Object.create(null)).       *)
(***************************************************************************)
Null == [k |-> "null", s |-> <<>>, n |-> 0]
Str(s) == [k |-> "str", s |-> s, n |-> 0]
Num(n) == [k |-> "num", s |-> <<>>, n |-> n]
Opaque == [k |-> "obj", s |-> <<>>, n |-> 0]

\* The strings and cells the bounded inputs are drawn from.  The per-value
\* and per-header tests below are tabulated over them (TLC evaluates a table
\* once); a value outside the pools is tested directly.
HeaderPool == {<<"D","a","t","e">>, <<"A","m","o","u","n","t">>, <<"N","o","t","e","s">>, <<"T","x","n"," ","D","a","t","e">>, <<"D","a","t","e"," ","T","o","t","a","l">>}
DetectCells == {Str(<<"2","0","2","4","-","0","1","-","1","5">>), Str(<<"1","5">>), Str(<<"(","7","5",".","0","0",")">>), Str(<<"C","o","f","f","e","e"," ","S","h","o","p">>)}
\* the cells a CSV grid is made of (Papa delivers strings), and the further
\* cells a worksheet grid can hold
CsvCells == DetectCells \cup {Str(<<>>), Str(<<"1","2",".","5","0">>)}
XlsCells == CsvCells \cup {Num(0), Null, Opaque}
CellPool == XlsCells

DigitChar == <<"0", "1", "2", "3", "4", "5", "6", "7", "8", "9">>
DigitVal == [c \in Digit |-> CHOOSE i \in 0..9 : DigitChar[i + 1] = c]

RECURSIVE NatToString(_), StringToNat(_)
NatToString(n) == IF n < 10 THEN <<DigitChar[n + 1]>> ELSE NatToString(n \div 10) \o <<DigitChar[(n % 10) + 1]>>
\* the value of a string of decimal digits
StringToNat(s) == IF s = <<>> THEN 0 ELSE 10 * StringToNat(SubSeq(s, 1, Len(s) - 1)) + DigitVal[s[Len(s)]]

\* !value
Falsy(v) == v.k = "null" \/ (v.k = "str" /\ v.s = <<>>) \/ (v.k = "num" /\ v.n = 0)
\* String(value) throws
StringThrows(v) == v.k = "obj"
\* String(value), for a value whose conversion does not throw
String(v) ==
  CASE v.k = "str" -> v.s
    [] v.k = "num" -> IF v.n < 0 THEN <<"-">> \o NatToString(0 - v.n) ELSE NatToString(v.n)
    [] v.k = "null" -> <<"u","n","d","e","f","i","n","e","d">>
    [] OTHER -> <<>>
\* row[index], index 0-based: undefined beyond the end of the row
At(row, index) == IF index + 1 \in DOMAIN row THEN row[index + 1] ELSE Null

(***************************************************************************)
(* Calendar dates                                                          *)
(***************************************************************************)
IsLeap(y) == (y % 4 = 0 /\ y % 100 # 0) \/ y % 400 = 0
DaysInMonth(y, m) ==
  IF m = 2 THEN (IF IsLeap(y) THEN 29 ELSE 28)
  ELSE IF m \in {4, 6, 9, 11} THEN 30 ELSE 31

InvalidDate == [k |-> "invalid", y |-> 0, m |-> 0, d |-> 0, t |-> 0]
\* a valid Date at calendar day y-m-d
Day(y, m, d) == [k |-> "day", y |-> y, m |-> m, d |-> d, t |-> 0]
\* new Date() taken at clock reading t
Now(t) == [k |-> "now", y |-> 0, m |-> 0, d |-> 0, t |-> t]

\* new Date(year, monthIndex, day): out-of-range months and days roll over,
\* and a year 0..99 means 1900 + year
RECURSIVE RollDay(_, _, _)
RollDay(y, m, d) ==
  IF d < 1 THEN (IF m = 1 THEN RollDay(y - 1, 12, d + 31) ELSE RollDay(y, m - 1, d + DaysInMonth(y, m - 1)))
  ELSE IF d > DaysInMonth(y, m) THEN (IF m = 12 THEN RollDay(y + 1, 1, d - 31) ELSE RollDay(y, m + 1, d - DaysInMonth(y, m)))
  ELSE Day(y, m, d)
NewDate(year, monthIndex, day) ==
  LET y0 == IF year >= 0 /\ year <= 99 THEN 1900 + year ELSE year
      y == y0 + (monthIndex \div 12)
      m == (monthIndex % 12) + 1
  IN RollDay(y, m, day)

MonthNames == <<<<"j","a","n">>, <<"f","e","b">>, <<"m","a","r">>, <<"a","p","r">>, <<"m","a","y">>, <<"j","u","n">>,
                <<"j","u","l">>, <<"a","u","g">>, <<"s","e","p">>, <<"o","c","t">>, <<"n","o","v">>, <<"d","e","c">>>>
MonthRe == Alt([i \in 1..12 |-> Lit(MonthNames[i])])
MonthOf(w) == CHOOSE i \in 1..12 : MonthNames[i] = w

\* The Date.parse of the JavaScript engine.  ECMAScript fixes the ISO forms
\* (YYYY, YYYY-MM, YYYY-MM-DD, with an optional THH:mm[:ss]); every other
\* string is implementation-defined.  "iso" is an engine that accepts the
\* ISO forms only; "legacy" also accepts M/D/YYYY, "D Mon YYYY" and
\* "Mon D, YYYY", as the legacy parsers of the browsers do.
Engines == {"iso", "legacy"}
IsoTimeRe == Cat(<<Lit(<<"T">>), D(2, 2), Lit(<<":">>), D(2, 2), Opt(Cat(<<Lit(<<":">>), D(2, 2)>>)), Opt(Lit(<<"Z">>))>>)
IsoDateRe == Cat(<<D(4, 4), Opt(Cat(<<Lit(<<"-">>), D(2, 2), Opt(Cat(<<Lit(<<"-">>), D(2, 2), Opt(IsoTimeRe)>>))>>))>>)
SlashDateRe == Cat(<<D(1, 2), Lit(<<"/">>), D(1, 2), Lit(<<"/">>), D(4, 4)>>)
DayMonYearRe == Cat(<<D(1, 2), Plus(Set(Whitespace)), MonthRe, Plus(Set(Whitespace)), D(4, 4)>>)
MonDayYearRe == Cat(<<MonthRe, Plus(Set(Whitespace)), D(1, 2), Opt(Lit(<<",">>)), Plus(Set(Whitespace)), D(4, 4)>>)

\* the maximal run of digits of s starting at position i
RECURSIVE DigitsFrom(_, _)
DigitsFrom(s, i) == IF i <= Len(s) /\ s[i] \in Digit THEN <<s[i]>> \o DigitsFrom(s, i + 1) ELSE <<>>
\* the position of the first character of s at or after i that is in cs (Len(s) + 1 if none)
RECURSIVE IndexOfSet(_, _, _)
IndexOfSet(s, cs, i) == IF i > Len(s) \/ s[i] \in cs THEN i ELSE IndexOfSet(s, cs, i + 1)

DateParse(engine, str) ==
  LET low == toLowerCase(str)
  IN IF TestFull(IsoDateRe, str)
     THEN LET y == StringToNat(SubSeq(str, 1, 4))
              m == IF Len(str) >= 7 THEN StringToNat(SubSeq(str, 6, 7)) ELSE 1
              d == IF Len(str) >= 10 THEN StringToNat(SubSeq(str, 9, 10)) ELSE 1
          IN IF m \in 1..12 /\ d >= 1 /\ d <= DaysInMonth(y, m) THEN Day(y, m, d) ELSE InvalidDate
     ELSE IF engine = "legacy" /\ TestFull(SlashDateRe, str)
     THEN LET ms == DigitsFrom(str, 1)
              ds == DigitsFrom(str, Len(ms) + 2)
              ys == DigitsFrom(str, Len(ms) + Len(ds) + 3)
              m == StringToNat(ms)
              d == StringToNat(ds)
          IN IF m \in 1..12 /\ d \in 1..31 THEN NewDate(StringToNat(ys), m - 1, d) ELSE InvalidDate
     ELSE IF engine = "legacy" /\ TestFull(DayMonYearRe, low)
     THEN LET ds == DigitsFrom(low, 1)
              p == IndexOfSet(low, LowerAlpha, 1)
              d == StringToNat(ds)
          IN IF d \in 1..31
             THEN NewDate(StringToNat(SubSeq(low, Len(low) - 3, Len(low))), MonthOf(SubSeq(low, p, p + 2)) - 1, d)
             ELSE InvalidDate
     ELSE IF engine = "legacy" /\ TestFull(MonDayYearRe, low)
     THEN LET p == IndexOfSet(low, Digit, 1)
              d == StringToNat(DigitsFrom(low, p))
          IN IF d \in 1..31
             THEN NewDate(StringToNat(SubSeq(low, Len(low) - 3, Len(low))), MonthOf(SubSeq(low, 1, 3)) - 1, d)
             ELSE InvalidDate
     ELSE InvalidDate

(***************************************************************************)
(* DateParser: the format table and isLikelyDateColumn                     *)
(***************************************************************************)
Pat(regex, format, ci, full) == [regex |-> regex, format |-> format, ci |-> ci, full |-> full]
Sep3(a, sep, b, c) == Cat(<<a, Lit(sep), b, Lit(sep), c>>)
\* DateParser.patterns, in table order; ci: the /i flag; full: the pattern ends in $
datePatterns == <<
  Pat(Cat(<<Sep3(D(4, 4), <<"-">>, D(2, 2), D(2, 2)), Lit(<<"T">>), Sep3(D(2, 2), <<":">>, D(2, 2), D(2, 2))>>), "iso", FALSE, FALSE),
  Pat(Sep3(D(4, 4), <<"-">>, D(2, 2), D(2, 2)), "yyyy-mm-dd", FALSE, FALSE),
  Pat(Sep3(D(1, 2), <<"/">>, D(1, 2), D(4, 4)), "mm/dd/yyyy", FALSE, FALSE),
  Pat(Sep3(D(1, 2), <<"-">>, D(1, 2), D(4, 4)), "mm-dd-yyyy", FALSE, FALSE),
  Pat(Sep3(D(1, 2), <<"/">>, D(1, 2), D(4, 4)), "dd/mm/yyyy", FALSE, FALSE),
  Pat(Sep3(D(1, 2), <<"-">>, D(1, 2), D(4, 4)), "dd-mm-yyyy", FALSE, FALSE),
  Pat(Sep3(D(2, 2), <<".">>, D(2, 2), D(4, 4)), "dd.mm.yyyy", FALSE, FALSE),
  Pat(Sep3(D(4, 4), <<".">>, D(2, 2), D(2, 2)), "yyyy.mm.dd", FALSE, FALSE),
  Pat(Cat(<<D(1, 2), Plus(Set(Whitespace)), MonthRe, Plus(Set(Whitespace)), D(4, 4)>>), "dd-mmm-yyyy", TRUE, FALSE),
  Pat(Cat(<<MonthRe, Plus(Set(Whitespace)), D(1, 2), Opt(Lit(<<",">>)), Plus(Set(Whitespace)), D(4, 4)>>), "mmm-dd-yyyy", TRUE, FALSE),
  Pat(D(5, 5), "excel-serial", FALSE, TRUE),
  Pat(D(1, 2), "day-only", FALSE, TRUE),
  Pat(MonthRe, "month-only", TRUE, TRUE),
  Pat(D(4, 4), "year-only", FALSE, TRUE)>>

\* pattern.regex.test(str)
PatternTest(p, str) ==
  LET s == IF p.ci THEN toLowerCase(str) ELSE str
  IN IF p.full THEN TestFull(p.regex, s) ELSE TestPrefix(p.regex, s)

\* !isNaN(parsed.getTime()) && parsed.getFullYear() > 1900 && parsed.getFullYear() < 2100
plausibleYear(parsed) == parsed.k = "day" /\ parsed.y > 1900 /\ parsed.y < 2100
\* what the trimmed text of one value adds to dateCount
dateCountOfText(engine, str) ==
  IF str = <<>> THEN 0
  ELSE IF Len(str) > 50 \/ TestFull(Plus(Set(Alpha \cup Whitespace \cup {"-"})), str) THEN 0
  ELSE (IF \E i \in DOMAIN datePatterns : PatternTest(datePatterns[i], str) THEN 1 ELSE 0)
       + (IF plausibleYear(DateParse(engine, str)) THEN 1 ELSE 0)
\* what one value adds to dateCount in isLikelyDateColumn: one for the first
\* matching signature, and one more when new Date(str) is a year in 1901..2099
dateCountOf(engine, value) ==
  IF Falsy(value) THEN 0 ELSE dateCountOfText(engine, trim(String(value)))

\* dateCountOf tabulated over the pools
dateCountTable == [ev \in Engines \X CellPool |-> dateCountOf(ev[1], ev[2])] @@ <<>>
dateCountFor(engine, value) ==
  IF value \in CellPool THEN dateCountTable[<<engine, value>>] ELSE dateCountOf(engine, value)

Min(a, b) == IF a < b THEN a ELSE b
RECURSIVE SumTo(_, _)
\* f[1] + ... + f[n]
SumTo(f, n) == IF n = 0 THEN 0 ELSE SumTo(f, n - 1) + f[n]

\* dateCount / sampleSize > 0.7
mostlyDates(dateCount, sampleSize) == 10 * dateCount > 7 * sampleSize
\* the loop of isLikelyDateColumn over the first sampleSize values
dateCountIn(engine, values, sampleSize) ==
  SumTo([i \in 1..sampleSize |-> dateCountFor(engine, values[i])], sampleSize)
\* isLikelyDateColumn on a non-empty column
likelyDatesIn(engine, values, sampleSize) ==
  mostlyDates(dateCountIn(engine, values, sampleSize), sampleSize)
\* DateParser.isLikelyDateColumn, for values whose String() does not throw
isLikelyDateColumn(engine, values) ==
  IF Len(values) = 0 THEN FALSE ELSE likelyDatesIn(engine, values, Min(10, Len(values)))

(***************************************************************************)
(* ColumnDetector                                                          *)
(***************************************************************************)
\* /^[-+]?[$£€¥₹]?\d{1,3}(,\d{3})*(\.\d{2})?[$£€¥₹]?$/
AmountRe1 == Cat(<<Opt(Set(Sign)), Opt(Set(Currency)), D(1, 3), Star(Cat(<<Lit(<<",">>), D(3, 3)>>)),
                   Opt(Cat(<<Lit(<<".">>), D(2, 2)>>)), Opt(Set(Currency))>>)
\* /^[-+]?\d+(\.\d{1,2})?$/
AmountRe2 == Cat(<<Opt(Set(Sign)), Plus(Set(Digit)), Opt(Cat(<<Lit(<<".">>), D(1, 2)>>))>>)
\* /^\(\d+(\.\d{2})?\)$/
AmountRe3 == Cat(<<Lit(<<"(">>), Plus(Set(Digit)), Opt(Cat(<<Lit(<<".">>), D(2, 2)>>)), Lit(<<")">>)>>)
\* /^[-+]?[$£€¥₹]?\d+[,.]?\d*[$£€¥₹]?$/
NumberRe == Cat(<<Opt(Set(Sign)), Opt(Set(Currency)), Plus(Set(Digit)), Opt(Set({",", "."})),
                  Star(Set(Digit)), Opt(Set(Currency))>>)
\* /[a-zA-Z]/
HasAlpha(s) == \E i \in DOMAIN s : s[i] \in Alpha

\* the three numeric patterns of isLikelyAmountColumn on the trimmed text
isNumericText(str) ==
  str # <<>> /\ (TestFull(AmountRe1, str) \/ TestFull(AmountRe2, str) \/ TestFull(AmountRe3, str))
\* one value of the sample counts as numeric in isLikelyAmountColumn
isNumericValue(value) == value.k # "null" /\ isNumericText(trim(String(value)))

isNumericTable == [v \in CellPool |-> isNumericValue(v)] @@ <<>>
isNumeric(value) == IF value \in CellPool THEN isNumericTable[value] ELSE isNumericValue(value)

\* numericCount / sampleSize > 0.8
mostlyNumeric(numericCount, sampleSize) == 10 * numericCount > 8 * sampleSize
\* isLikelyAmountColumn on a non-empty column
likelyAmountsIn(values, sampleSize) ==
  mostlyNumeric(Cardinality({i \in 1..sampleSize : isNumeric(values[i])}), sampleSize)
\* ColumnDetector.isLikelyAmountColumn
isLikelyAmountColumn(values) ==
  IF Len(values) = 0 THEN FALSE ELSE likelyAmountsIn(values, Min(10, Len(values)))

\* the test of isLikelyDescriptionColumn on the trimmed text
isDescriptiveText(engine, str) ==
  /\ str # <<>>
  /\ Len(str) > 5
  /\ HasAlpha(str)
  /\ ~isLikelyDateColumn(engine, <<Str(str)>>)
  /\ ~TestFull(NumberRe, str)
\* one value of the sample counts as descriptive text in isLikelyDescriptionColumn
isTextValue(engine, value) == value.k # "null" /\ isDescriptiveText(engine, trim(String(value)))

isTextTable == [ev \in Engines \X CellPool |-> isTextValue(ev[1], ev[2])] @@ <<>>
isText(engine, value) == IF value \in CellPool THEN isTextTable[<<engine, value>>] ELSE isTextValue(engine, value)

\* textCount / sampleSize > 0.6
mostlyText(textCount, sampleSize) == 10 * textCount > 6 * sampleSize
\* isLikelyDescriptionColumn on a non-empty column
likelyTextIn(engine, values, sampleSize) ==
  mostlyText(Cardinality({i \in 1..sampleSize : isText(engine, values[i])}), sampleSize)
\* ColumnDetector.isLikelyDescriptionColumn
isLikelyDescriptionColumn(engine, values) ==
  IF Len(values) = 0 THEN FALSE ELSE likelyTextIn(engine, values, Min(10, Len(values)))

\* the pattern points the trimmed text of one sampled value adds
patternMatchesOfText(engine, val) ==
  IF val = <<>> THEN 0
  ELSE (IF isLikelyDateColumn(engine, <<Str(val)>>) THEN 20 ELSE 0)
       + (IF TestFull(NumberRe, val) THEN 20 ELSE 0)
       + (IF Len(val) > 10 /\ HasAlpha(val) THEN 10 ELSE 0)
\* the pattern points one sampled value adds in calculateConfidence
patternMatchesOf(engine, value) ==
  IF Falsy(value) THEN 0 ELSE patternMatchesOfText(engine, trim(String(value)))

patternMatchesTable == [ev \in Engines \X CellPool |-> patternMatchesOf(ev[1], ev[2])] @@ <<>>
patternMatchesFor(engine, value) ==
  IF value \in CellPool THEN patternMatchesTable[<<engine, value>>] ELSE patternMatchesOf(engine, value)

\* the points calculateConfidence gives for the lower-cased header name
headerPoints(headerLower) ==
  (IF includes(headerLower, <<"d","a","t","e">>) \/ includes(headerLower, <<"p","o","s","t","e","d">>) \/ includes(headerLower, <<"t","i","m","e">>)
   THEN 30 ELSE 0)
  + (IF includes(headerLower, <<"a","m","o","u","n","t">>) \/ includes(headerLower, <<"t","o","t","a","l">>) \/ includes(headerLower, <<"v","a","l","u","e">>)
     THEN 30 ELSE 0)
  + (IF includes(headerLower, <<"d","e","s","c","r","i","p","t","i","o","n">>) \/ includes(headerLower, <<"m","e","r","c","h","a","n","t">>) \/ includes(headerLower, <<"m","e","m","o">>)
     THEN 30 ELSE 0)
\* the points calculateConfidence gives for the header name
headerConfidence(header) == headerPoints(toLowerCase(header))
headerConfidenceTable == [h \in HeaderPool |-> headerConfidence(h)] @@ <<>>

\* the pattern points of the first sampleSize values
patternMatchesIn(engine, values, sampleSize) ==
  SumTo([i \in 1..sampleSize |-> patternMatchesFor(engine, values[i])], sampleSize)
\* ColumnDetector.calculateConfidence
calculateConfidence(engine, values, header) ==
  (IF header \in HeaderPool THEN headerConfidenceTable[header] ELSE headerConfidence(header))
  + Min(patternMatchesIn(engine, values, Min(5, Len(values))), 50)

\* A ColumnMapping: the column index of each role, -1 for a role that is undefined
EmptyMap == [r \in Roles |-> -1]
Assigned(columnMap) == {r \in Roles : columnMap[r] >= 0}

NotNull(v) == v.k # "null"
\* data.slice(0, 10).map(row => row[index]).filter(v => v != null)
columnValues(data, index) ==
  SelectSeq([r \in 1..Min(10, Len(data)) |-> At(data[r], index)], NotNull)

\* the entry of columnAnalysis for the column of the given index
analyseColumn(engine, index, header, values) ==
  [index |-> index,
   isDateColumn |-> isLikelyDateColumn(engine, values),
   isAmountColumn |-> isLikelyAmountColumn(values),
   isDescriptionColumn |-> isLikelyDescriptionColumn(engine, values),
   confidence |-> calculateConfidence(engine, values, header)]
\* columnAnalysis: per column (1-based position p holds column index p - 1)
columnAnalysis(engine, headers, data) ==
  [p \in 1..Len(headers) |-> analyseColumn(engine, p - 1, headers[p], columnValues(data, p - 1))]

\* (the last of the candidates none of which has a higher confidence)
firstBestRightmost(analysis, candidates) ==
  CHOOSE q \in candidates :
    \A o \in candidates :
       \/ analysis[q].confidence > analysis[o].confidence
       \/ (analysis[q].confidence = analysis[o].confidence /\ q >= o)
\* the first of the candidates none of which has a higher confidence
firstBest(analysis, candidates) ==
  CHOOSE q \in candidates :
    \A o \in candidates :
       \/ analysis[q].confidence > analysis[o].confidence
       \/ (analysis[q].confidence = analysis[o].confidence /\ q <= o)
\* candidates.sort((a, b) => b.confidence - a.confidence)[0].index: the sort is
\* stable, so the first of the candidates of highest confidence; -1 if none
bestColumn(analysis, candidates) ==
  IF candidates = {} THEN -1 ELSE analysis[firstBest(analysis, candidates)].index

\* the map PRIORITY 1 leaves, date and amount being chosen
contentRoles(analysis, date, amount) ==
  [r \in Roles |->
     CASE r = "date" -> date
       [] r = "amount" -> amount
       [] r = "description" ->
            bestColumn(analysis, {p \in DOMAIN analysis : /\ analysis[p].isDescriptionColumn
                                                         /\ analysis[p].index # date
                                                         /\ analysis[p].index # amount})
       [] OTHER -> -1]
\* the choices of PRIORITY 1 on the analysis of the columns
contentChoice(analysis) ==
  contentRoles(analysis,
               bestColumn(analysis, {p \in DOMAIN analysis : analysis[p].isDateColumn}),
               bestColumn(analysis, {p \in DOMAIN analysis : analysis[p].isAmountColumn}))
\* PRIORITY 1 of detectColumns: data content analysis
contentTier(engine, headers, data) ==
  IF Len(data) = 0 THEN EmptyMap ELSE contentChoice(columnAnalysis(engine, headers, data))

\* patterns.some(pattern => pattern.test(cleanHeader)) for one role
matchesField(field, cleanHeader) ==
  \E i \in DOMAIN patterns[field] : TestFull(patterns[field][i], cleanHeader)

matchesFieldTable == [hr \in HeaderPool \X Roles |-> matchesField(hr[2], toLowerCase(trim(hr[1])))] @@ <<>>
\* the test of the inner loop of PRIORITY 2 for header and role
headerMatches(header, field) ==
  IF header \in HeaderPool THEN matchesFieldTable[<<header, field>>]
  ELSE matchesField(field, toLowerCase(trim(header)))

\* (the inner loop body of PRIORITY 2 without its guard on assigned roles)
claimByPatternUnguarded(columnMap, field, header, index) ==
  IF headerMatches(header, field) THEN index ELSE columnMap[field]

\* the inner loop body of PRIORITY 2 for one header and one role: the value
\* of columnMap[field] after it
claimByPattern(columnMap, field, header, index) ==
  IF columnMap[field] >= 0 THEN columnMap[field]
  ELSE IF headerMatches(header, field) THEN index
  ELSE -1

\* PRIORITY 2 of detectColumns: headers.forEach from position p on
RECURSIVE headerTier(_, _, _)
headerTier(headers, p, columnMap) ==
  IF p > Len(headers) THEN columnMap
  ELSE headerTier(headers, p + 1,
         [r \in Roles |-> claimByPattern(columnMap, r, headers[p], p - 1)])

likelyTable == [hr \in HeaderPool \X Roles |-> TestSearch(likelyPatterns[hr[2]], toLowerCase(hr[1]))] @@ <<>>
\* the case-insensitive test of smartGuess for header and role
headerLikely(header, field) ==
  IF header \in HeaderPool THEN likelyTable[<<header, field>>]
  ELSE TestSearch(likelyPatterns[field], toLowerCase(header))

\* (the least position of the set, 1-based)
firstIndexOneBased(hits) == CHOOSE p \in hits : \A q \in hits : p <= q
\* the least position of a non-empty set of positions, as a 0-based index
firstIndex(hits) == (CHOOSE p \in hits : \A q \in hits : p <= q) - 1
\* headers.findIndex(h => likely-pattern-of-field.test(h))
findIndex(headers, field) ==
  IF \E p \in DOMAIN headers : headerLikely(headers[p], field)
  THEN firstIndex({p \in DOMAIN headers : headerLikely(headers[p], field)})
  ELSE -1

\* the body of the forEach of smartGuess for one role, index being the guess
applyGuess(columnMap, field, index) ==
  IF index >= 0 /\ columnMap[field] < 0 THEN index ELSE columnMap[field]
\* ColumnDetector.smartGuess
smartGuess(headers, columnMap) ==
  [r \in Roles |-> applyGuess(columnMap, r, findIndex(headers, r))]

\* detectColumns throws when a sampled cell of a header column cannot be
\* converted to a string (isLikelyDateColumn converts every sampled value)
detectThrows(headers, data) ==
  /\ Len(data) > 0
  /\ \E r \in 1..Min(10, Len(data)), c \in 1..Len(headers) : StringThrows(At(data[r], c - 1))

\* detectColumns from PRIORITY 3 on: content and header are the maps after
\* PRIORITY 1 and PRIORITY 2
detectResult(headers, content, header) ==
  [threw |-> FALSE, content |-> content, header |-> header,
   guessed |-> Cardinality(Assigned(header)) < 2,
   map |-> IF Cardinality(Assigned(header)) < 2 THEN smartGuess(headers, header) ELSE header]
\* detectColumns from PRIORITY 2 on
detectFrom(headers, content) == detectResult(headers, content, headerTier(headers, 1, content))
\* ColumnDetector.detectColumns: the map after each tier, whether smartGuess
\* ran, and the map returned
detectColumns(engine, headers, data) ==
  IF detectThrows(headers, data)
  THEN [threw |-> TRUE, content |-> EmptyMap, header |-> EmptyMap, guessed |-> FALSE, map |-> EmptyMap]
  ELSE detectFrom(headers, contentTier(engine, headers, data))

(***************************************************************************)
(* Numbers: a finite number is m * 10^-e with e >= 0 least (the sign of    *)
(* zero is not kept); NaN is a value of its own.                           *)
(***************************************************************************)
NaN == [k |-> "nan", m |-> 0, e |-> 0]
RECURSIVE Dec(_, _)
Dec(m, e) == IF e > 0 /\ m % 10 = 0 THEN Dec(m \div 10, e - 1) ELSE [k |-> "dec", m |-> m, e |-> e]
Int10(n) == Dec(n, 0)
isNaN(x) == x.k = "nan"
Negate(x) == IF isNaN(x) THEN NaN ELSE Dec(0 - x.m, x.e)
RECURSIVE Pow10(_)
Pow10(n) == IF n = 0 THEN 1 ELSE 10 * Pow10(n - 1)
\* Math.trunc of a finite number, as an integer
Trunc(x) == IF x.m >= 0 THEN x.m \div Pow10(x.e) ELSE 0 - ((0 - x.m) \div Pow10(x.e))

\* the number with mantissa digits ip.fp and decimal exponent x
floatValue(ip, fp, x) ==
  IF x - Len(fp) >= 0 THEN Dec(StringToNat(ip \o fp) * Pow10(x - Len(fp)), 0)
  ELSE Dec(StringToNat(ip \o fp), Len(fp) - x)
\* the exponent part of a numeral, read at p2: e[sign]digits, 0 when there is none
floatExponent(t, p2) ==
  IF ~(p2 <= Len(t) /\ t[p2] \in {"e", "E"}) THEN 0
  ELSE IF p2 + 1 <= Len(t) /\ t[p2 + 1] = "-" THEN 0 - StringToNat(DigitsFrom(t, p2 + 2))
  ELSE IF p2 + 1 <= Len(t) /\ t[p2 + 1] = "+" THEN StringToNat(DigitsFrom(t, p2 + 2))
  ELSE StringToNat(DigitsFrom(t, p2 + 1))
\* the numeral with integer digits ip and fraction digits fp, the fraction ending before p2
floatMantissa(t, ip, fp, p2) ==
  IF ip = <<>> /\ fp = <<>> THEN NaN ELSE floatValue(ip, fp, floatExponent(t, p2))
\* the numeral with integer digits ip ending before p1
floatFraction(t, ip, p1) ==
  IF p1 <= Len(t) /\ t[p1] = "."
  THEN floatMantissa(t, ip, DigitsFrom(t, p1 + 1), p1 + 1 + Len(DigitsFrom(t, p1 + 1)))
  ELSE floatMantissa(t, ip, <<>>, p1)
\* the unsigned numeral starting at p0
floatDigits(t, p0) == floatFraction(t, DigitsFrom(t, p0), p0 + Len(DigitsFrom(t, p0)))
\* x, negated when neg
signed(neg, x) == IF neg THEN Negate(x) ELSE x
\* parseFloat of a string without leading white space
floatOf(t) ==
  signed(t # <<>> /\ t[1] = "-", floatDigits(t, IF t # <<>> /\ t[1] \in Sign THEN 2 ELSE 1))
\* parseFloat(s): the longest prefix [ws][sign](digits[.digits] | .digits)[e[sign]digits]
parseFloat(s) == floatOf(trimStart(s))

\* the integer with digits ip, NaN when there are none
intOf(neg, ip) == IF ip = <<>> THEN NaN ELSE signed(neg, Int10(StringToNat(ip)))
\* parseInt of a string without leading white space
intFrom(t) == intOf(t # <<>> /\ t[1] = "-", DigitsFrom(t, IF t # <<>> /\ t[1] \in Sign THEN 2 ELSE 1))
\* parseInt(s): the longest prefix [ws][sign]digits
parseInt(s) == intFrom(trimStart(s))

\* Number(s), for the strings a date splits into: empty is 0, a decimal
\* numeral is its value, anything else is NaN
NumberRe2 == Cat(<<Opt(Set(Sign)), Alt(<<Cat(<<Plus(Set(Digit)), Opt(Cat(<<Lit(<<".">>), Star(Set(Digit))>>))>>),
                                         Cat(<<Lit(<<".">>), Plus(Set(Digit))>>)>>)>>)
numberOf(t) ==
  IF t = <<>> THEN Int10(0)
  ELSE IF TestFull(NumberRe2, t) THEN floatOf(t)
  ELSE NaN
ToNumber(s) == numberOf(trim(s))

\* s.replace(/[cs]/g, '')
RECURSIVE RemoveAll(_, _)
RemoveAll(s, cs) ==
  IF s = <<>> THEN <<>>
  ELSE (IF Head(s) \in cs THEN <<>> ELSE <<Head(s)>>) \o RemoveAll(Tail(s), cs)

\* isNaN(num) ? 0 : num
orZero(num) == IF isNaN(num) THEN Int10(0) ELSE num
\* parseAmount from "cleaned" on
amountOfCleaned(cleaned) ==
  IF cleaned # <<>> /\ cleaned[1] = "(" /\ cleaned[Len(cleaned)] = ")"
  THEN orZero(Negate(parseFloat(SubSeq(cleaned, 2, Len(cleaned) - 1))))
  ELSE orZero(parseFloat(cleaned))
\* parseAmount from "str" on
amountOfText(str) ==
  IF str = <<>> THEN Int10(0)
  ELSE amountOfCleaned(RemoveAll(str, Currency \cup {","} \cup Whitespace))
\* fileParser.parseAmount
parseAmount(value) ==
  IF value.k = "num" THEN Int10(value.n)
  ELSE amountOfText(trim(IF Falsy(value) THEN <<>> ELSE String(value)))

(***************************************************************************)
(* DateParser.parseDate                                                    *)
(***************************************************************************)
\* s.split(sep) for a one-character separator
RECURSIVE Split(_, _)
Split(s, sep) ==
  LET p == IndexOfSet(s, {sep}, 1)
  IN IF p > Len(s) THEN <<s>>
     ELSE <<SubSeq(s, 1, p - 1)>> \o Split(SubSeq(s, p + 1, Len(s)), sep)

\* new Date(year, monthIndex, day) on numbers: NaN in any place is an Invalid
\* Date, fractions are truncated
NewDateOf(year, month, day) ==
  IF isNaN(year) \/ isNaN(month) \/ isNaN(day) THEN InvalidDate
  ELSE NewDate(Trunc(year), Trunc(month) - 1, Trunc(day))

\* const [a, b, c] = str.split(sep).map(Number): a missing part is undefined,
\* which new Date() takes as NaN
firstThree(parts) == [i \in 1..3 |-> IF i <= Len(parts) THEN ToNumber(parts[i]) ELSE NaN]
PartsOf(str, sep) == firstThree(Split(str, sep))

\* new Date(y, m - 1, d) for the parts of n at the places given
dateOfParts(n, yearAt, monthAt, dayAt) == NewDateOf(n[yearAt], n[monthAt], n[dayAt])
\* str.includes('/') ? '/' : '-'
slashOrDash(str) == IF includes(str, <<"/">>) THEN "/" ELSE "-"

\* DateParser.parseWithFormat
parseWithFormat(dateEngine, str, format) ==
  CASE format = "iso" -> DateParse(dateEngine, str)
    [] format = "yyyy-mm-dd" -> dateOfParts(PartsOf(str, "-"), 1, 2, 3)
    [] format \in {"mm/dd/yyyy", "mm-dd-yyyy"} -> dateOfParts(PartsOf(str, slashOrDash(str)), 3, 1, 2)
    [] format \in {"dd/mm/yyyy", "dd-mm-yyyy"} -> dateOfParts(PartsOf(str, slashOrDash(str)), 3, 2, 1)
    [] format = "dd.mm.yyyy" -> dateOfParts(PartsOf(str, "."), 3, 2, 1)
    [] format = "yyyy.mm.dd" -> dateOfParts(PartsOf(str, "."), 1, 2, 3)
    [] format = "excel-serial" ->
         \* new Date(1900, 0, 1) plus (serial - 2) days
         NewDate(1900, 0, 1 + Trunc(parseInt(str)) - 2)
    [] OTHER -> DateParse(dateEngine, str)

\* a valid date, or else the other date
orElse(date, other) == IF date.k = "day" THEN date ELSE other

notNaN(x) == ~isNaN(x)
truncAll(xs) == [i \in DOMAIN xs |-> Trunc(xs[i])]
\* parts.map(p => parseInt(p)).filter(n => !isNaN(n))
numsOf(parts) == truncAll(SelectSeq([i \in DOMAIN parts |-> parseInt(parts[i])], notNaN))
\* the three arrangements <<year, month, day>> tryDateParts tries, in order
arrangementsOf(nums) == <<<<nums[3], nums[2] - 1, nums[1]>>,
                          <<nums[3], nums[1] - 1, nums[2]>>,
                          <<nums[1], nums[2] - 1, nums[3]>>>>
\* year >= 1900 && year <= 2100 && month >= 0 && month <= 11 && day >= 1 && day <= 31
inRange(a) == a[1] >= 1900 /\ a[1] <= 2100 /\ a[2] >= 0 /\ a[2] <= 11 /\ a[3] >= 1 /\ a[3] <= 31
dateOfArrangement(a) == NewDate(a[1], a[2], a[3])
\* the date of the first arrangement in range, or null (InvalidDate)
firstInRange(arrangements) ==
  IF \A i \in 1..3 : ~inRange(arrangements[i]) THEN InvalidDate
  ELSE dateOfArrangement(arrangements[CHOOSE i \in 1..3 :
                            inRange(arrangements[i]) /\ \A j \in 1..(i - 1) : ~inRange(arrangements[j])])
\* tryDateParts on the numbers of the parts
tryNums(nums) == IF Len(nums) < 3 THEN InvalidDate ELSE firstInRange(arrangementsOf(nums))
\* DateParser.tryDateParts: the first arrangement in range, or null (InvalidDate)
tryDateParts(parts) == tryNums(numsOf(parts))

\* the "Try each pattern" loop of parseDate from pattern i on
RECURSIVE tryPatterns(_, _, _)
tryPatterns(dateEngine, str, i) ==
  IF i > Len(datePatterns) THEN InvalidDate
  ELSE orElse(IF PatternTest(datePatterns[i], str)
              THEN parseWithFormat(dateEngine, str, datePatterns[i].format)
              ELSE InvalidDate,
              tryPatterns(dateEngine, str, i + 1))

separators == <<"/", "-", ".", " ">>
trimAll(split) == [j \in DOMAIN split |-> trim(split[j])]
\* the body of the separator loop for the parts str splits into
tryParts(split) == IF Len(split) >= 3 THEN tryDateParts(trimAll(split)) ELSE InvalidDate
\* the "Try common separators" loop of parseDate from separator i on
RECURSIVE trySeparators(_, _)
trySeparators(str, i) ==
  IF i > Len(separators) THEN InvalidDate
  ELSE orElse(tryParts(Split(str, separators[i])), trySeparators(str, i + 1))

\* !isNaN(directParse.getTime()) && directParse.getFullYear() > 1900
after1900(directParse) ==
  IF directParse.k = "day" /\ directParse.y > 1900 THEN directParse ELSE InvalidDate
\* parseDate from "str" on
parseText(dateEngine, str, tick) ==
  IF str = <<>> THEN Now(tick)
  ELSE orElse(after1900(DateParse(dateEngine, str)),
              orElse(tryPatterns(dateEngine, str, 1),
                     orElse(trySeparators(str, 1), Now(tick))))
\* DateParser.parseDate(value), with new Date() reading the clock at tick
parseDate(dateEngine, value, tick) ==
  IF Falsy(value) THEN Now(tick) ELSE parseText(dateEngine, trim(String(value)), tick)

(***************************************************************************)
(* fileParser: row materialization                                         *)
(***************************************************************************)
\* error.message of the TypeError String(value) throws
ConvertError == "Cannot convert object to primitive value"

\* row.every(val => !val || String(val).trim() === '') from cell i on:
\* "true", "false", or "throw" when the conversion of a cell reached throws
RECURSIVE everyEmpty(_, _)
everyEmpty(row, i) ==
  IF i > Len(row) THEN "true"
  ELSE IF Falsy(row[i]) THEN everyEmpty(row, i + 1)
  ELSE IF StringThrows(row[i]) THEN "throw"
  ELSE IF trim(String(row[i])) = <<>> THEN everyEmpty(row, i + 1)
  ELSE "false"

\* String(value || '') throws
TextThrows(value) == ~Falsy(value) /\ StringThrows(value)
\* String(value || '')
TextOf(value) == IF Falsy(value) THEN <<>> ELSE String(value)

\* (the file name taken whole)
stripExtensionNever(name) == name
\* file.name.replace(/\.[^/.]+$/, '')
stripExtension(name) ==
  LET dots == {p \in DOMAIN name : name[p] = "."}
      last == CHOOSE p \in dots : \A q \in dots : q <= p
  IN IF dots = {} THEN name
     ELSE IF last < Len(name) /\ \A q \in (last + 1)..Len(name) : name[q] # "/"
     THEN SubSeq(name, 1, last - 1)
     ELSE name

\* (the failed-row record with the 0-based index of the row)
failedRowZeroBased(index, row) == [rowIndex |-> index, row |-> row, error |-> ConvertError]
\* failedRows.push({ rowIndex: index + 1, row, error: error.message })
failedRow(index, row) == [rowIndex |-> index + 1, row |-> row, error |-> ConvertError]

\* the conversions of the mapped cells of the row throw
mappedCellThrows(row, columnMap) ==
  \/ (columnMap["date"] >= 0 /\ StringThrows(At(row, columnMap["date"])))
  \/ (columnMap["amount"] >= 0 /\ TextThrows(At(row, columnMap["amount"])))
  \/ (columnMap["description"] >= 0 /\ TextThrows(At(row, columnMap["description"])))
  \/ (columnMap["account"] >= 0 /\ TextThrows(At(row, columnMap["account"])))
\* transactionDate: new Date(), replaced by DateParser.parseDate(dateValue)
\* when a date column is assigned
dateOfRow(dateEngine, row, columnMap, tick) ==
  IF columnMap["date"] >= 0 THEN parseDate(dateEngine, At(row, columnMap["date"]), tick) ELSE Now(tick)
\* const transaction: Transaction = {...}
transactionOf(row, index, columnMap, fileName, id, transactionDate) ==
  [id |-> id,
   date |-> transactionDate,
   amount |-> IF columnMap["amount"] >= 0 THEN parseAmount(At(row, columnMap["amount"])) ELSE Int10(0),
   description |-> IF columnMap["description"] >= 0 THEN TextOf(At(row, columnMap["description"]))
                   ELSE <<"T","r","a","n","s","a","c","t","i","o","n"," ">> \o NatToString(index + 1),
   account |-> IF columnMap["account"] >= 0 THEN TextOf(At(row, columnMap["account"]))
               ELSE stripExtension(fileName),
   sourceFile |-> fileName]
\* String(dateValue).trim() && transactionDate.getTime() === new Date().getTime()
fallbackUsed(dateValue, transactionDate, tick) ==
  /\ trim(String(dateValue)) # <<>>
  /\ transactionDate.k = "now"
  /\ transactionDate.t = tick
\* the row became a transaction dated transactionDate
rowBuilt(row, index, columnMap, fileName, id, clk, transactionDate) ==
  [kind |-> "tx",
   transaction |-> transactionOf(row, index, columnMap, fileName, id, transactionDate),
   warn |-> columnMap["date"] >= 0 /\ fallbackUsed(At(row, columnMap["date"]), transactionDate, clk[2])]

\* the body of dataRows.forEach for one row: index is 0-based, id is what
\* Math.random().toString(36).substr(2, 9) gives, clk = <<c1, c2>> are the
\* clock readings of the date fallback and of the comparison after it
rowResult(dateEngine, row, index, columnMap, fileName, id, clk) ==
  CASE everyEmpty(row, 1) = "true" -> [kind |-> "skip"]
    [] everyEmpty(row, 1) = "throw" -> [kind |-> "fail", failed |-> failedRow(index, row)]
    [] OTHER ->
         IF mappedCellThrows(row, columnMap)
         THEN [kind |-> "fail", failed |-> failedRow(index, row)]
         ELSE rowBuilt(row, index, columnMap, fileName, id, clk,
                       dateOfRow(dateEngine, row, columnMap, clk[1]))

\* what the forEach body does with the result r of row p (of index p - 1)
pushRow(acc, r, p) ==
  CASE r.kind = "skip" -> acc
    [] r.kind = "fail" ->
         [acc EXCEPT !.failedRows = Append(@, r.failed),
                     !.logs = Append(@, [level |-> "warning", message |-> "Failed to parse row", rowIndex |-> p])]
    [] r.kind = "tx" ->
         [acc EXCEPT !.transactions = Append(@, r.transaction),
                     !.logs = IF r.warn
                              THEN Append(@, [level |-> "warning", message |-> "Date parsing fallback used", rowIndex |-> p])
                              ELSE @]

\* dataRows.forEach(...) from row p on (row p has index p - 1): the
\* transactions pushed, the failed rows pushed and the log lines written
RECURSIVE materialize(_, _, _, _, _, _, _, _)
materialize(dateEngine, dataRows, p, columnMap, fileName, rnd, clks, acc) ==
  IF p > Len(dataRows) THEN acc
  ELSE materialize(dateEngine, dataRows, p + 1, columnMap, fileName, rnd, clks,
         pushRow(acc, rowResult(dateEngine, dataRows[p], p - 1, columnMap, fileName, rnd[p], clks[p]), p))

NoRows == [transactions |-> <<>>, failedRows |-> <<>>, logs |-> <<>>]

(***************************************************************************)
(* fileParser: parseCSV, parseXLS, parseFile                               *)
(***************************************************************************)
\* What the promise of a parse settles with.  ok: resolved; error: the
\* message of the rejection; result: the ParseResult resolved with;
\* failedRows: the local failedRows of the callback; visited: the number of
\* data rows the row loop was run on
Reject(decoder, message, logs) ==
  [ok |-> FALSE, error |-> message, decoder |-> decoder,
   result |-> [transactions |-> <<>>, fileName |-> <<>>, detectedColumns |-> <<>>],
   columnMap |-> EmptyMap, failedRows |-> <<>>, visited |-> 0, logs |-> logs]
Resolve(decoder, fileName, headers, columnMap, out, visited) ==
  [ok |-> TRUE, error |-> "", decoder |-> decoder,
   result |-> [transactions |-> out.transactions, fileName |-> fileName, detectedColumns |-> headers],
   columnMap |-> columnMap, failedRows |-> out.failedRows, visited |-> visited, logs |-> out.logs]

\* (the check for the required columns left out)
noRequiredColumnsNever(columnMap) == FALSE
\* columnMap.date === undefined && columnMap.amount === undefined
noRequiredColumns(columnMap) == columnMap["date"] < 0 /\ columnMap["amount"] < 0

\* dataRows.slice(0, 10)
sampleRows(dataRows) == SubSeq(dataRows, 1, Min(10, Len(dataRows)))

\* A File: its name, its declared type, and what the decoder it is handed to
\* will deliver: k = "rows" with the decoded grid (header row first),
\* k = "error" (Papa's error callback, FileReader.onerror), or k = "nosheet"
\* (a workbook whose first sheet is missing)
File(name, type, data) == [name |-> name, type |-> type, data |-> data]
Grid(rows) == [k |-> "rows", rows |-> rows]
ReadError == [k |-> "error", rows |-> <<>>]
NoSheet == [k |-> "nosheet", rows |-> <<>>]

\* parseCSV from the check of the detected columns on (lines 72-134)
csvDetected(dateEngine, f, headers, dataRows, det, rnd, clks) ==
  IF det.threw THEN Reject("csv", ConvertError, <<>>)
  ELSE IF noRequiredColumns(det.map)
  THEN Reject("csv", "Could not detect date or amount columns. Please check your CSV format.",
              <<[level |-> "error", message |-> "No date or amount columns detected", rowIndex |-> 0]>>)
  ELSE Resolve("csv", f.name, headers, det.map,
               materialize(dateEngine, dataRows, 1, det.map, f.name, rnd, clks, NoRows),
               Len(dataRows))
\* parseCSV from the check of the headers on (lines 64-134)
csvRows(dateEngine, f, headers, dataRows, rnd, clks) ==
  IF Len(headers) = 0 THEN Reject("csv", "No headers found in CSV file", <<>>)
  ELSE csvDetected(dateEngine, f, headers, dataRows,
                   detectColumns(dateEngine, headers, sampleRows(dataRows)), rnd, clks)
\* fileParser.parseCSV: the promise settled by Papa's complete / error callback
parseCSV(dateEngine, f, rnd, clks) ==
  IF f.data.k # "rows" THEN Reject("csv", "Failed to parse CSV", <<>>)
  ELSE IF Len(f.data.rows) = 0 THEN Reject("csv", "No data found in CSV file", <<>>)
  ELSE csvRows(dateEngine, f, f.data.rows[1], Tail(f.data.rows), rnd, clks)

\* parseXLS from the check of the detected columns on (lines 185-245)
xlsDetected(dateEngine, f, headers, dataRows, det, rnd, clks) ==
  IF det.threw THEN Reject("xls", ConvertError, <<>>)
  ELSE IF noRequiredColumns(det.map)
  THEN Reject("xls", "Could not detect date or amount columns. Please check your Excel format.",
              <<[level |-> "error", message |-> "No date or amount columns detected in XLS", rowIndex |-> 0]>>)
  ELSE Resolve("xls", f.name, headers, det.map,
               materialize(dateEngine, dataRows, 1, det.map, f.name, rnd, clks, NoRows),
               Len(dataRows))
\* parseXLS from the taking of the headers on (lines 173-245)
xlsRows(dateEngine, f, headers, dataRows, rnd, clks) ==
  xlsDetected(dateEngine, f, headers, dataRows,
              detectColumns(dateEngine, headers, sampleRows(dataRows)), rnd, clks)
\* fileParser.parseXLS: the promise settled by reader.onload / reader.onerror
parseXLS(dateEngine, f, rnd, clks) ==
  IF f.data.k = "error" THEN Reject("xls", "Failed to read file", <<>>)
  ELSE IF f.data.k = "nosheet" THEN Reject("xls", "No worksheet found in file", <<>>)
  ELSE IF Len(f.data.rows) = 0 THEN Reject("xls", "No data found in worksheet", <<>>)
  ELSE xlsRows(dateEngine, f, f.data.rows[1], Tail(f.data.rows), rnd, clks)

\* file.name.toLowerCase().split('.').pop()
\* parts.pop()
pop(parts) == parts[Len(parts)]
extensionOf(name) == pop(Split(toLowerCase(name), "."))

\* the decoder for an extension and a declared type
decoderFor(extension, type) ==
  IF extension = <<"c","s","v">> \/ type = <<"t","e","x","t","/","c","s","v">> THEN "csv"
  ELSE IF extension = <<"x","l","s","x">> \/ extension = <<"x","l","s">> \/ includes(type, <<"s","p","r","e","a","d","s","h","e","e","t">>) THEN "xls"
  ELSE "none"
\* the decoder parseFile hands the file to: "csv", "xls" or "none"
decoderOf(f) == decoderFor(extensionOf(f.name), f.type)

\* a sequence of characters as one string
RECURSIVE Text(_)
Text(s) == IF s = <<>> THEN "" ELSE Head(s) \o Text(Tail(s))
\* `Unsupported file type: ${extension}. Please upload CSV or Excel files.`
unsupportedMessage(extension) ==
  "Unsupported file type: " \o Text(extension) \o ". Please upload CSV or Excel files."

\* the rejection of a file no decoder takes
unsupported(f) == Reject("none", unsupportedMessage(extensionOf(f.name)), <<>>)
\* fileParser.parseFile: what its promise settles with
parseFile(dateEngine, f, rnd, clks) ==
  CASE decoderOf(f) = "csv" -> parseCSV(dateEngine, f, rnd, clks)
    [] decoderOf(f) = "xls" -> parseXLS(dateEngine, f, rnd, clks)
    [] OTHER -> unsupported(f)

(***************************************************************************)
(* FileUpload.onDrop over the store of BankerBotContext                    *)
(***************************************************************************)
\* Math.random().toString(36).substr(2, 9) and the clock readings of one row
IdPool == {"k3j9x2m1q", "p0d8s7a6f"}
MaxTick == 1
ClockPairs == {c \in (0..MaxTick) \X (0..MaxTick) : c[1] <= c[2]}
\* the number of data rows of a file
rowCount(f) == IF f.data.rows = <<>> THEN 0 ELSE Len(f.data.rows) - 1
\* everything the promise of parseFile(f) can settle with
outcomesOf(dateEngine, f) ==
  {parseFile(dateEngine, f, rnd, clks) :
     rnd \in [1..rowCount(f) -> IdPool], clks \in [1..rowCount(f) -> ClockPairs]}

\* the files dropped on the upload area
FilePool ==
  {File(<<"a",".","c","s","v">>, <<"t","e","x","t","/","c","s","v">>,
        Grid(<<<<<<"D","a","t","e">>, <<"A","m","o","u","n","t">>>>, <<Str(<<"2","0","2","4","-","0","1","-","1","5">>), Str(<<"(","7","5",".","0","0",")">>)>>>>)),
   File(<<"e",".","t","x","t">>, <<"t","e","x","t","/","p","l","a","i","n">>, ReadError),
   File(<<"n",".","c","s","v">>, <<"t","e","x","t","/","c","s","v">>, Grid(<<<<>>, <<Str(<<"2","0","2","4","-","0","1","-","1","5">>), Str(<<"(","7","5",".","0","0",")">>)>>>>)),
   File(<<"m",".","c","s","v">>, <<"t","e","x","t","/","c","s","v">>, Grid(<<<<<<"N","o","t","e","s">>>>, <<Str(<<"C","o","f","f","e","e"," ","S","h","o","p">>)>>>>)),
   File(<<"b",".","x","l","s","x">>, <<"a","p","p","l","i","c","a","t","i","o","n","/","v","n","d",".","o","p","e","n","x","m","l","f","o","r","m","a","t","s","-","o","f","f","i","c","e","d","o","c","u","m","e","n","t",".","s","p","r","e","a","d","s","h","e","e","t","m","l",".","s","h","e","e","t">>,
        Grid(<<<<<<"N","o","t","e","s">>>>, <<Str(<<"C","o","f","f","e","e"," ","S","h","o","p">>)>>>>)),
   File(<<"c",".","x","l","s">>, <<"a","p","p","l","i","c","a","t","i","o","n","/","v","n","d",".","m","s","-","e","x","c","e","l">>, ReadError)}
OutcomeTable == [ef \in Engines \X FilePool |-> outcomesOf(ef[1], ef[2])] @@ <<>>

\* The state onDrop works on: the store (transactions, fileMappings), the
\* component state fileStatuses, the pending clear timers, and the record of
\* what happened (log: parseFile started / settled, per dropped file; added:
\* the files whose transactions addTransactions appended, in order; settled:
\* what each parse settled with).  A dropped file is identified by <<b, i>>,
\* the i-th file of the b-th drop.
UploadState(txs, mappings, statuses, timers, log, added, settled) ==
  [transactions |-> txs, fileMappings |-> mappings, fileStatuses |-> statuses,
   timers |-> timers, log |-> log, added |-> added, settled |-> settled]

\* setFileStatuses(prev => prev.map(status => status.file === file ? {...} : status))
updateStatus(statuses, fid, status, error, count) ==
  [j \in DOMAIN statuses |->
     IF statuses[j].file = fid
     THEN [file |-> fid, status |-> status, error |-> error, transactionCount |-> count]
     ELSE statuses[j]]

\* (the new transactions put in front of the stored ones)
afterParsePrepending(st, fid, f, out, captured) ==
  IF out.ok
  THEN [st EXCEPT
          !.fileStatuses = updateStatus(@, fid, "success", "", Len(out.result.transactions)),
          !.transactions = out.result.transactions \o @,
          !.fileMappings = Append(captured, [fileName |-> f.name,
                                             detectedColumns |-> out.result.detectedColumns,
                                             transactionCount |-> Len(out.result.transactions)]),
          !.added = Append(@, fid),
          !.log = Append(@, [ev |-> "settle", file |-> fid]),
          !.settled = Append(@, [file |-> fid, out |-> out])]
  ELSE [st EXCEPT
          !.fileStatuses = updateStatus(@, fid, "error", out.error, -1),
          !.log = Append(@, [ev |-> "settle", file |-> fid]),
          !.settled = Append(@, [file |-> fid, out |-> out])]

\* the body of the for loop after await parseFile(file) has settled with out:
\* the success branch (lines 47-73) or the catch branch (lines 75-94);
\* captured is the fileMappings the running onDrop closed over
afterParse(st, fid, f, out, captured) ==
  IF out.ok
  THEN [st EXCEPT
          !.fileStatuses = updateStatus(@, fid, "success", "", Len(out.result.transactions)),
          !.transactions = @ \o out.result.transactions,
          !.fileMappings = Append(captured, [fileName |-> f.name,
                                             detectedColumns |-> out.result.detectedColumns,
                                             transactionCount |-> Len(out.result.transactions)]),
          !.added = Append(@, fid),
          !.log = Append(@, [ev |-> "settle", file |-> fid]),
          !.settled = Append(@, [file |-> fid, out |-> out])]
  ELSE [st EXCEPT
          !.fileStatuses = updateStatus(@, fid, "error", out.error, -1),
          !.log = Append(@, [ev |-> "settle", file |-> fid]),
          !.settled = Append(@, [file |-> fid, out |-> out])]

\* (a rejected file ends the batch)
nextIndexStopOnError(files, i, out) == IF out.ok THEN i + 1 ELSE Len(files) + 1
\* i++ of the for loop: the next file, whatever the parse of file i settled with
nextIndex(files, i, out) == i + 1

\* the log with the start of parseFile for the file
started(st, fid) == [st EXCEPT !.log = Append(@, [ev |-> "start", file |-> fid])]
\* the position of a run: its state, the index of its file, where it stands
Position(st, i, pc) == [st |-> st, i |-> i, pc |-> pc]

\* The for loop of onDrop from file i of drop b on, up to its next suspension:
\* parseFile(file) is started; a file no decoder takes rejects without I/O
\* and the loop goes on in the same task; for any other file the loop waits
\* for the decoder.  After the last file the clear timer is set.  Returns the
\* state and the position the run is left in.
RECURSIVE runLoop(_, _, _, _, _, _)
runLoop(dateEngine, st, b, files, i, captured) ==
  IF i > Len(files)
  THEN Position([st EXCEPT !.timers = @ + 1], i, "done")
  ELSE IF decoderOf(files[i]) = "none"
  THEN runLoop(dateEngine,
               afterParse(started(st, <<b, i>>), <<b, i>>, files[i], unsupported(files[i]), captured),
               b, files, nextIndex(files, i, unsupported(files[i])), captured)
  ELSE Position(started(st, <<b, i>>), i, "await")

(***************************************************************************)
(* State                                                                   *)
(***************************************************************************)
VARIABLES
  jsEngine,   \* the Date.parse of the JavaScript engine the program runs on
  dpc,        \* detectColumns called on its own: "input" or "returned"
  dHeaders,   \* its headers argument
  dData,      \* its data argument (the sample rows)
  dOut,       \* what the latest call computed
  dCalls,     \* the number of calls made on these arguments
  dFirst,     \* what the first of them computed
  ppc,        \* parseFile called on its own: "input" or "settled"
  pFile,      \* its file argument
  pOut,       \* what its promise settled with
  transactions,  \* BankerBotContext: the stored transactions
  fileMappings,  \* BankerBotContext: the file mappings
  fileStatuses,  \* FileUpload: the status entries shown
  clearTimers,   \* the pending setTimeout(() => setFileStatuses([]), 5000)
  runs,          \* the calls of onDrop: files, position, captured fileMappings
  parseLog,      \* history: parseFile started / settled, per dropped file
  addedFiles,    \* history: the files whose transactions were added, in order
  settledFiles,  \* history: what the parse of each file settled with
  upc,        \* a utility function called on its own: "input" or "returned"
  uFn,        \* the function called
  uArg,       \* its argument
  uRet,       \* what it returned
  sCall,      \* a promise-returning function called on its own
  sFile,      \* its file argument
  sIo,        \* the read it started: "none", "reading", "loaded" or "failed"
  sPromise,   \* its promise: "none", "pending", "resolved" or "rejected"
  searchTerm,        \* BankerBotContext: the search term
  selectedAccount,   \* BankerBotContext: the account selected, or 'all'
  sortField,         \* TransactionTable: the field sorted on
  sortDirection,     \* TransactionTable: 'asc' or 'desc'
  filteredTransactions,  \* TransactionTable: the view last computed
  accountSummaries,  \* what getAccountSummaries last returned
  storeOp,           \* history: the latest operation on the store and its argument
  xpc,        \* a session written and read back: "input", "exported" or "imported"
  xList,      \* the transactions handed to exportToExcel
  xSheet,     \* the rows of the sheet 'Transactions' of the file written
  xImported,  \* what importFromExcel resolved with
  loggerLogs,    \* Logger: its logs, the entries newest first
  listeners,     \* Logger: the subscribed listeners
  notified,      \* history: the listeners the latest call notified
  logOp,         \* history: the latest call on the logger, the number of entries added
                 \* since the last clearLogs, and the listeners whose subscription is live
  hpc,        \* the header-only detectColumns called on its own
  hHeaders,   \* its headers argument
  hOut        \* the map it returned

detectVars == <<dpc, dHeaders, dData, dOut, dCalls, dFirst>>
parseVars == <<ppc, pFile, pOut>>
uploadVars == <<transactions, fileMappings, fileStatuses, clearTimers, runs, parseLog, addedFiles, settledFiles>>
utilVars == <<upc, uFn, uArg, uRet>>
settleVars == <<sCall, sFile, sIo, sPromise>>
storeVars == <<searchTerm, selectedAccount, sortField, sortDirection, filteredTransactions, accountSummaries, storeOp>>
sessionVars == <<xpc, xList, xSheet, xImported>>
loggerVars == <<loggerLogs, listeners, notified, logOp>>
headerVars == <<hpc, hHeaders, hOut>>
restVars == <<storeVars, sessionVars, loggerVars, headerVars>>
vars == <<jsEngine, detectVars, parseVars, uploadVars, utilVars, settleVars, restVars>>

\* the sequences over S of length at most n
SeqsUpTo(S, n) == UNION {[1..k -> S] : k \in 0..n}

NoDetect == [threw |-> FALSE, content |-> EmptyMap, header |-> EmptyMap, guessed |-> FALSE, map |-> EmptyMap]
NoFile == File(<<>>, <<>>, ReadError)
NoOutcome == Reject("none", "", <<>>)
DetectIdle == dpc = "input" /\ dHeaders = <<>> /\ dData = <<>> /\ dOut = NoDetect /\ dCalls = 0 /\ dFirst = NoDetect
ParseIdle == ppc = "input" /\ pFile = NoFile /\ pOut = NoOutcome
UploadIdle ==
  /\ transactions = <<>> /\ fileMappings = <<>> /\ fileStatuses = <<>> /\ clearTimers = 0
  /\ runs = <<>> /\ parseLog = <<>> /\ addedFiles = <<>> /\ settledFiles = <<>>
UtilIdle == upc = "input" /\ uFn = "none" /\ uArg = Null /\ uRet = "none"
SettleIdle == sCall = "none" /\ sFile = NoFile /\ sIo = "none" /\ sPromise = "none"
NoOp == [op |-> "none", arg |-> <<>>]
StoreIdle ==
  /\ searchTerm = <<>> /\ selectedAccount = <<"a","l","l">> /\ sortField = "date" /\ sortDirection = "desc"
  /\ filteredTransactions = <<>> /\ accountSummaries = <<>> /\ storeOp = NoOp
SessionIdle == xpc = "input" /\ xList = <<>> /\ xSheet = <<>> /\ xImported = <<>>
NoLogOp == [op |-> "none", since |-> 0, live |-> {}]
LoggerIdle == loggerLogs = <<>> /\ listeners = <<>> /\ notified = {} /\ logOp = NoLogOp
HeaderIdle == hpc = "input" /\ hHeaders = <<>> /\ hOut = EmptyMap
RestIdle == StoreIdle /\ SessionIdle /\ LoggerIdle /\ HeaderIdle

(***************************************************************************)
(* detectColumns on bounded inputs                                         *)
(***************************************************************************)
MaxCols == 2
MaxRows == 2
\* the calls made on one pair of arguments
MaxCalls == 2

\* (the sampled rows taken out of data: data.splice(0, Math.min(10, data.length)))
dataAfterSplice(data) == SubSeq(data, Min(10, Len(data)) + 1, Len(data))
\* data.slice(0, Math.min(10, data.length)) copies the sampled rows: the
\* caller's array is what it was
dataAfterCall(data) == data

DetectInit ==
  /\ jsEngine \in Engines
  /\ dpc = "input"
  /\ dHeaders \in SeqsUpTo(HeaderPool, MaxCols)
  /\ dData \in SeqsUpTo(SeqsUpTo(DetectCells, MaxCols), MaxRows)
  /\ dOut = NoDetect
  /\ dCalls = 0
  /\ dFirst = NoDetect
  /\ ParseIdle
  /\ UploadIdle
  /\ UtilIdle
  /\ SettleIdle
  /\ RestIdle

\* one call ColumnDetector.detectColumns(headers, data), on the arrays the
\* call before it was given
CallDetectColumns ==
  /\ dCalls < MaxCalls
  /\ dOut' = detectColumns(jsEngine, dHeaders, dData)
  /\ dFirst' = IF dCalls = 0 THEN dOut' ELSE dFirst
  /\ dCalls' = dCalls + 1
  /\ dpc' = "returned"
  /\ dData' = dataAfterCall(dData)
  /\ UNCHANGED <<jsEngine, dHeaders, parseVars, uploadVars, utilVars, settleVars, restVars>>

DetectNext == CallDetectColumns
SpecDetect == DetectInit /\ [][DetectNext]_vars

(***************************************************************************)
(* parseFile on bounded inputs                                             *)
(***************************************************************************)
NamePool == {<<"a",".","c","s","v">>, <<"b",".","x","l","s","x">>, <<"c",".","x","l","s">>, <<"D",".","C","S","V">>, <<"e",".","t","x","t">>, <<"c","s","v">>, <<"f",".","c","s","v",".","b","a","k">>}
TypePool == {<<"t","e","x","t","/","c","s","v">>, <<"a","p","p","l","i","c","a","t","i","o","n","/","v","n","d",".","m","s","-","e","x","c","e","l">>,
             <<"a","p","p","l","i","c","a","t","i","o","n","/","v","n","d",".","o","p","e","n","x","m","l","f","o","r","m","a","t","s","-","o","f","f","i","c","e","d","o","c","u","m","e","n","t",".","s","p","r","e","a","d","s","h","e","e","t","m","l",".","s","h","e","e","t">>,
             <<"t","e","x","t","/","p","l","a","i","n">>, <<>>}
\* the header rows and data rows of the decoded grids
HeaderRows == {<<>>, <<<<"N","o","t","e","s">>>>, <<<<"A","m","o","u","n","t">>>>, <<<<"D","a","t","e">>, <<"A","m","o","u","n","t">>>>}
CsvRows == {<<Str(<<"2","0","2","4","-","0","1","-","1","5">>), Str(<<"(","7","5",".","0","0",")">>)>>,
            <<Str(<<>>), Str(<<>>)>>,
            <<Str(<<"C","o","f","f","e","e"," ","S","h","o","p">>), Str(<<"1","2",".","5","0">>)>>}
XlsRows == CsvRows \cup {<<Num(0), Num(0)>>, <<Str(<<>>), Null, Opaque>>}
MaxDataRows == 2
\* what a decoder can deliver for a file handed to it
GridsOf(rowPool) == {Grid(<<>>)} \cup {Grid(<<h>> \o d) : h \in HeaderRows, d \in SeqsUpTo(rowPool, MaxDataRows)}
CsvData == {ReadError} \cup GridsOf(CsvRows)
XlsData == {ReadError, NoSheet} \cup GridsOf(XlsRows)
\* the files parseFile is called on: every name and declared type with a
\* failing read and with one well-formed grid, and every grid under one CSV
\* and one workbook identity
SampleData == {ReadError, Grid(<<<<<<"D","a","t","e">>, <<"A","m","o","u","n","t">>>>, <<Str(<<"2","0","2","4","-","0","1","-","1","5">>), Str(<<"(","7","5",".","0","0",")">>)>>>>)}
ParseFiles ==
  {File(name, type, d) : name \in NamePool, type \in TypePool, d \in SampleData}
  \cup {File(<<"a",".","c","s","v">>, <<"t","e","x","t","/","c","s","v">>, d) : d \in CsvData}
  \cup {File(<<"b",".","x","l","s","x">>, <<"a","p","p","l","i","c","a","t","i","o","n","/","v","n","d",".","o","p","e","n","x","m","l","f","o","r","m","a","t","s","-","o","f","f","i","c","e","d","o","c","u","m","e","n","t",".","s","p","r","e","a","d","s","h","e","e","t","m","l",".","s","h","e","e","t">>, d) : d \in XlsData}

ParseInit ==
  /\ jsEngine \in Engines
  /\ DetectIdle
  /\ ppc = "input"
  /\ pFile \in ParseFiles
  /\ pOut = NoOutcome
  /\ UploadIdle
  /\ UtilIdle
  /\ SettleIdle
  /\ RestIdle

\* one call parseFile(file), up to the settling of its promise
CallParseFile ==
  /\ ppc = "input"
  /\ \E rnd \in [1..rowCount(pFile) -> IdPool], clks \in [1..rowCount(pFile) -> ClockPairs] :
       pOut' = parseFile(jsEngine, pFile, rnd, clks)
  /\ ppc' = "settled"
  /\ UNCHANGED <<jsEngine, pFile, detectVars, uploadVars, utilVars, settleVars, restVars>>

ParseNext == CallParseFile
SpecParse == ParseInit /\ [][ParseNext]_vars


(***************************************************************************)
(* The upload area: drops, decoder callbacks, clear timers                 *)
(***************************************************************************)
MaxFiles == 2
MaxDrops == 2

Current == UploadState(transactions, fileMappings, fileStatuses, clearTimers, parseLog, addedFiles, settledFiles)
Install(st) ==
  /\ transactions' = st.transactions
  /\ fileMappings' = st.fileMappings
  /\ fileStatuses' = st.fileStatuses
  /\ clearTimers' = st.timers
  /\ parseLog' = st.log
  /\ addedFiles' = st.added
  /\ settledFiles' = st.settled

UploadInit ==
  /\ jsEngine \in Engines
  /\ DetectIdle
  /\ ParseIdle
  /\ UploadIdle
  /\ UtilIdle
  /\ SettleIdle
  /\ RestIdle

\* onDrop(acceptedFiles) up to its first suspension: the statuses are
\* replaced by the new batch's, then the loop starts
Drop ==
  /\ Len(runs) < MaxDrops
  /\ \E acceptedFiles \in SeqsUpTo(FilePool, MaxFiles) :
       LET b == Len(runs) + 1
           initialStatuses == [i \in 1..Len(acceptedFiles) |->
                                 [file |-> <<b, i>>, status |-> "uploading", error |-> "", transactionCount |-> -1]]
           r == runLoop(jsEngine, [Current EXCEPT !.fileStatuses = initialStatuses], b, acceptedFiles, 1, fileMappings)
       IN /\ Install(r.st)
          /\ runs' = Append(runs, [files |-> acceptedFiles, i |-> r.i, pc |-> r.pc, captured |-> fileMappings])
  /\ UNCHANGED <<jsEngine, detectVars, parseVars, utilVars, settleVars, restVars>>

\* the decoder of the file a run waits for calls back: the promise of
\* parseFile settles and onDrop resumes, up to its next suspension
Settle ==
  /\ \E b \in DOMAIN runs :
       /\ runs[b].pc = "await"
       /\ \E out \in OutcomeTable[<<jsEngine, runs[b].files[runs[b].i]>>] :
            LET run == runs[b]
                r == runLoop(jsEngine, afterParse(Current, <<b, run.i>>, run.files[run.i], out, run.captured),
                             b, run.files, nextIndex(run.files, run.i, out), run.captured)
            IN /\ Install(r.st)
               /\ runs' = [runs EXCEPT ![b].i = r.i, ![b].pc = r.pc]
  /\ UNCHANGED <<jsEngine, detectVars, parseVars, utilVars, settleVars, restVars>>

\* a clear timer fires: setFileStatuses([])
TimerFire ==
  /\ clearTimers > 0
  /\ fileStatuses' = <<>>
  /\ clearTimers' = clearTimers - 1
  /\ UNCHANGED <<jsEngine, detectVars, parseVars, utilVars, settleVars, restVars, transactions, fileMappings, runs, parseLog, addedFiles, settledFiles>>

UploadNext == Drop \/ Settle \/ TimerFire
SpecUpload == UploadInit /\ [][UploadNext]_vars

(***************************************************************************)
(* The utility functions on bounded inputs                                 *)
(***************************************************************************)
\* the strings handed to parseAmount: every string over AmountAlphabet of
\* length at most MaxLen
MaxLen == 3
AmountAlphabet == {"1", "5", ".", "-", "$", ",", " ", "(", ")", "a"}
AmountInputs == {Null, Num(0), Num(12)} \cup {Str(s) : s \in SeqsUpTo(AmountAlphabet, MaxLen)}
\* the columns handed to isLikelyAmountColumn and isLikelyDateColumn
MaxSample == 5
SampleCells == {Str(<<"1","2",".","5","0">>), Str(<<"2","0","2","4","-","0","1","-","1","5">>), Str(<<"C","o","f","f","e","e"," ","S","h","o","p">>)}
ColumnSamples == SeqsUpTo(SampleCells, MaxSample)
\* the texts handed to parseDate: calendar days written in six ways
CalendarDays == {<<2024, 1, 15>>, <<2024, 3, 4>>, <<2024, 2, 29>>, <<2023, 12, 31>>}
Encodings == {"yyyy-mm-dd", "dd/mm/yyyy", "mm/dd/yyyy", "yyyy.mm.dd", "dd Mon yyyy", "Mon dd, yyyy"}
MonthAbbr == <<<<"J","a","n">>, <<"F","e","b">>, <<"M","a","r">>, <<"A","p","r">>, <<"M","a","y">>, <<"J","u","n">>,
               <<"J","u","l">>, <<"A","u","g">>, <<"S","e","p">>, <<"O","c","t">>, <<"N","o","v">>, <<"D","e","c">>>>
Pad2(n) == IF n < 10 THEN <<"0">> \o NatToString(n) ELSE NatToString(n)
encode(day, encoding) ==
  LET yyyy == NatToString(day[1])
      mm == Pad2(day[2])
      dd == Pad2(day[3])
      Mon == MonthAbbr[day[2]]
  IN CASE encoding = "yyyy-mm-dd" -> yyyy \o <<"-">> \o mm \o <<"-">> \o dd
       [] encoding = "dd/mm/yyyy" -> dd \o <<"/">> \o mm \o <<"/">> \o yyyy
       [] encoding = "mm/dd/yyyy" -> mm \o <<"/">> \o dd \o <<"/">> \o yyyy
       [] encoding = "yyyy.mm.dd" -> yyyy \o <<".">> \o mm \o <<".">> \o dd
       [] encoding = "dd Mon yyyy" -> dd \o <<" ">> \o Mon \o <<" ">> \o yyyy
       [] encoding = "Mon dd, yyyy" -> Mon \o <<" ">> \o dd \o <<","," ">> \o yyyy
DateInputs == {Null, Str(<<>>), Str(<<"C","o","f","f","e","e"," ","S","h","o","p">>)} \cup {Str(encode(day, e)) : day \in CalendarDays, e \in Encodings}

UtilCalls ==
  ({"parseAmount"} \X AmountInputs)
  \cup ({"isLikelyAmountColumn", "isLikelyDateColumn"} \X ColumnSamples)
  \cup ({"parseDate"} \X DateInputs)

UtilInit ==
  /\ jsEngine \in Engines
  /\ DetectIdle
  /\ ParseIdle
  /\ UploadIdle
  /\ SettleIdle
  /\ RestIdle
  /\ upc = "input"
  /\ \E call \in UtilCalls : uFn = call[1] /\ uArg = call[2]
  /\ uRet = "none"

Returned(value) ==
  /\ upc = "input"
  /\ uRet' = value
  /\ upc' = "returned"
  /\ UNCHANGED <<jsEngine, detectVars, parseVars, uploadVars, settleVars, restVars, uFn, uArg>>

\* one call parseAmount(value)
CallParseAmount == uFn = "parseAmount" /\ Returned(parseAmount(uArg))
\* one call ColumnDetector.isLikelyAmountColumn(values)
CallIsLikelyAmountColumn == uFn = "isLikelyAmountColumn" /\ Returned(isLikelyAmountColumn(uArg))
\* one call DateParser.isLikelyDateColumn(values)
CallIsLikelyDateColumn == uFn = "isLikelyDateColumn" /\ Returned(isLikelyDateColumn(jsEngine, uArg))
\* one call DateParser.parseDate(value), new Date() reading the clock at tick
CallParseDate == uFn = "parseDate" /\ \E tick \in 0..MaxTick : Returned(parseDate(jsEngine, uArg, tick))

UtilNext == CallParseAmount \/ CallIsLikelyAmountColumn \/ CallIsLikelyDateColumn \/ CallParseDate
SpecUtil == UtilInit /\ [][UtilNext]_vars

(***************************************************************************)
(* The promises of the ingestion functions: the call, then the event the   *)
(* decoding library or the FileReader delivers                             *)
(***************************************************************************)
SettleCalls == {"parseCSV", "parseXLS", "parseFile", "importFromExcel"}
\* what reads the file for a call: Papa.parse, a FileReader, or nothing
\* (parseFile throws before it reads a file no decoder takes)
readBy(call, decoder) ==
  CASE call = "parseCSV" -> "papa"
    [] call = "parseXLS" -> "reader"
    [] call = "importFromExcel" -> "reader"
    [] OTHER -> (IF decoder = "csv" THEN "papa" ELSE IF decoder = "xls" THEN "reader" ELSE "none")
settled(ok) == IF ok THEN "resolved" ELSE "rejected"
\* the files the functions are called on: every name and declared type,
\* with a failing read, a workbook without the sheet, an empty grid, a
\* grid without a date or amount column and a well-formed grid
SettleData == SampleData \cup {NoSheet, Grid(<<>>), Grid(<<<<<<"N","o","t","e","s">>>>, <<Str(<<"C","o","f","f","e","e"," ","S","h","o","p">>)>>>>)}
SettleFiles == {File(name, type, d) : name \in NamePool, type \in TypePool, d \in SettleData}
\* how the promise of parseCSV / parseXLS settles once the file is decoded
csvSettles ==
  [ev \in Engines \X SettleFiles |->
     {settled(parseCSV(ev[1], ev[2], rnd, clks).ok) :
        rnd \in [1..rowCount(ev[2]) -> IdPool], clks \in [1..rowCount(ev[2]) -> ClockPairs]}] @@ <<>>
xlsSettles ==
  [ev \in Engines \X SettleFiles |->
     {settled(parseXLS(ev[1], ev[2], rnd, clks).ok) :
        rnd \in [1..rowCount(ev[2]) -> IdPool], clks \in [1..rowCount(ev[2]) -> ClockPairs]}] @@ <<>>

SettleInit ==
  /\ jsEngine \in Engines
  /\ DetectIdle
  /\ ParseIdle
  /\ UploadIdle
  /\ UtilIdle
  /\ RestIdle
  /\ sCall \in SettleCalls
  /\ sFile \in SettleFiles
  /\ sIo = "none"
  /\ sPromise = "none"

\* the call itself: new Promise(...) runs its executor, which starts the
\* read and installs the callbacks; parseFile throws on a file no decoder takes
Started(io, promise) ==
  /\ sPromise = "none"
  /\ sIo' = io
  /\ sPromise' = promise
  /\ UNCHANGED <<jsEngine, detectVars, parseVars, uploadVars, utilVars, restVars, sCall, sFile>>
CallParseCSV == sCall = "parseCSV" /\ Started("reading", "pending")
CallParseXLS == sCall = "parseXLS" /\ Started("reading", "pending")
CallImportFromExcel == sCall = "importFromExcel" /\ Started("reading", "pending")
CallParseFileAsync ==
  /\ sCall = "parseFile"
  /\ IF decoderOf(sFile) = "none" THEN Started("none", "rejected") ELSE Started("reading", "pending")

\* an event of the read is delivered and its callback, if one is installed, runs
Delivered(io, promise) ==
  /\ sIo = "reading"
  /\ sIo' = io
  /\ sPromise' = promise
  /\ UNCHANGED <<jsEngine, detectVars, parseVars, uploadVars, utilVars, restVars, sCall, sFile>>
\* Papa.parse calls complete(results)
PapaComplete ==
  /\ readBy(sCall, decoderOf(sFile)) = "papa"
  /\ sFile.data.k = "rows"
  /\ \E promise \in csvSettles[<<jsEngine, sFile>>] : Delivered("loaded", promise)
\* Papa.parse calls error(error)
PapaError ==
  /\ readBy(sCall, decoderOf(sFile)) = "papa"
  /\ sFile.data.k # "rows"
  /\ Delivered("failed", "rejected")
\* the FileReader fires load: reader.onload runs.  In importFromExcel it
\* rejects when the workbook has no sheet named 'Transactions' (here: no
\* sheet) and resolves with the rows of that sheet otherwise
ReaderLoad ==
  /\ readBy(sCall, decoderOf(sFile)) = "reader"
  /\ sFile.data.k # "error"
  /\ IF sCall = "importFromExcel"
     THEN Delivered("loaded", settled(sFile.data.k = "rows"))
     ELSE \E promise \in xlsSettles[<<jsEngine, sFile>>] : Delivered("loaded", promise)
\* the FileReader fires error: parseXLS installed reader.onerror, which
\* rejects; importFromExcel installed no handler for it
ReaderError ==
  /\ readBy(sCall, decoderOf(sFile)) = "reader"
  /\ sFile.data.k = "error"
  /\ Delivered("failed", IF sCall = "importFromExcel" THEN sPromise ELSE "rejected")

SettleNext ==
  \/ CallParseCSV \/ CallParseXLS \/ CallImportFromExcel \/ CallParseFileAsync
  \/ PapaComplete \/ PapaError \/ ReaderLoad \/ ReaderError
\* the runtime runs the call, and every read that was started ends with one
\* of its events being delivered
SpecSettle == SettleInit /\ [][SettleNext]_vars /\ WF_vars(SettleNext)

(***************************************************************************)
(* The transaction store (BankerBotContext.tsx) and the table view over it *)
(* (TransactionTable.tsx).                                                 *)
(***************************************************************************)
\* Number.prototype.toString of a decimal of moderate size
RECURSIVE padLeft(_, _)
padLeft(digits, width) == IF Len(digits) >= width THEN digits ELSE padLeft(<<"0">> \o digits, width)
unsignedToString(m0, e0) ==
  IF e0 = 0 THEN NatToString(m0)
  ELSE NatToString(m0 \div Pow10(e0)) \o <<".">> \o padLeft(NatToString(m0 % Pow10(e0)), e0)
NumberToString(x) ==
  IF isNaN(x) THEN <<"N","a","N">>
  ELSE IF x.m < 0 THEN <<"-">> \o unsignedToString(0 - x.m, x.e) ELSE unsignedToString(x.m, x.e)
\* a < b on numbers (false when either is NaN)
numLess(a, b) == ~isNaN(a) /\ ~isNaN(b) /\ a.m * Pow10(b.e) < b.m * Pow10(a.e)
\* a + b on numbers, exact on the decimals of the model
scaleOf(a, b) == IF a.e >= b.e THEN a.e ELSE b.e
numPlus(a, b) ==
  IF isNaN(a) \/ isNaN(b) THEN NaN
  ELSE Dec(a.m * Pow10(scaleOf(a, b) - a.e) + b.m * Pow10(scaleOf(a, b) - b.e), scaleOf(a, b))
\* Math.abs
abs(x) == IF isNaN(x) THEN NaN ELSE IF x.m < 0 THEN Negate(x) ELSE x
\* Date.prototype.getTime of a calendar day, up to a monotone rescaling
getTime(date) == (date.y * 100 + date.m) * 100 + date.d

\* prev => [...prev, ...newTransactions]
addTransactions(prev, newTransactions) == prev \o newTransactions
\* prev => prev.filter(t => t.id !== id)
deleteFirstMatch(prev, id) ==
  IF \E i \in DOMAIN prev : prev[i].id = id
  THEN LET i == CHOOSE k \in DOMAIN prev : prev[k].id = id /\ \A l \in 1..(k - 1) : prev[l].id # id
       IN SubSeq(prev, 1, i - 1) \o SubSeq(prev, i + 1, Len(prev))
  ELSE prev
deleteTransaction(prev, id) == SelectSeq(prev, LAMBDA t : t.id # id)

\* the search filter of filteredTransactions
matchesSearch(t, term) ==
  \/ includes(toLowerCase(t.description), toLowerCase(term))
  \/ includes(toLowerCase(t.account), toLowerCase(term))
  \/ includes(NumberToString(t.amount), term)
\* the two filters: each applies only when its setting is set, and builds
\* a new array when it does
filterApplies(term, account) == term # <<>> \/ account # <<"a","l","l">>
bySearch(stored, term) == IF term # <<>> THEN SelectSeq(stored, LAMBDA t : matchesSearch(t, term)) ELSE stored
byAccount(stored, account) == IF account # <<"a","l","l">> THEN SelectSeq(stored, LAMBDA t : t.account = account) ELSE stored
\* the comparator handed to sort: -1, 0 or 1
fieldLess(field, a, b) == IF field = "date" THEN getTime(a.date) < getTime(b.date) ELSE numLess(a.amount, b.amount)
compare(field, direction, a, b) ==
  IF fieldLess(field, a, b) THEN (IF direction = "asc" THEN -1 ELSE 1)
  ELSE IF fieldLess(field, b, a) THEN (IF direction = "asc" THEN 1 ELSE -1)
  ELSE 0
\* Array.prototype.sort: stable, in place
RECURSIVE insertSorted(_, _, _, _)
insertSorted(field, direction, sorted, t) ==
  IF sorted = <<>> THEN <<t>>
  ELSE IF compare(field, direction, sorted[Len(sorted)], t) <= 0 THEN Append(sorted, t)
  ELSE Append(insertSorted(field, direction, SubSeq(sorted, 1, Len(sorted) - 1), t), sorted[Len(sorted)])
RECURSIVE sortFrom(_, _, _, _)
sortFrom(field, direction, sorted, rest) ==
  IF rest = <<>> THEN sorted ELSE sortFrom(field, direction, insertSorted(field, direction, sorted, Head(rest)), Tail(rest))
sort(list, field, direction) == sortFrom(field, direction, <<>>, list)
\* the value of the useMemo: the filtered array, sorted
viewOf(stored, term, account, field, direction) == sort(byAccount(bySearch(stored, term), account), field, direction)
\* the store's array after the view was computed: 'filtered' is the store's
\* own array when no filter built a new one, and sort works in place
storeAfterNoCopy(stored, term, account, view) == stored
storeAfterView(stored, term, account, view) == IF filterApplies(term, account) THEN stored ELSE view

\* property names every object literal inherits from Object.prototype
InheritedKeys == {<<"c","o","n","s","t","r","u","c","t","o","r">>, <<"t","o","S","t","r","i","n","g">>, <<"v","a","l","u","e","O","f">>, <<"h","a","s","O","w","n","P","r","o","p","e","r","t","y">>, <<"_","_","p","r","o","t","o","_","_">>}
\* !acc[account]: no own summary of that name and nothing inherited
absentIn(acc, account) == account \notin InheritedKeys /\ \A i \in DOMAIN acc : acc[i].account # account
newSummary(account) ==
  [account |-> account, totalIncome |-> Int10(0), totalExpenses |-> Int10(0), netAmount |-> Int10(0), transactionCount |-> 0]
\* the updates of one reduce step on a summary
counted(summary, amount) ==
  [summary EXCEPT !.totalIncome = IF numLess(Int10(0), amount) THEN numPlus(@, amount) ELSE @,
                  !.totalExpenses = IF numLess(Int10(0), amount) THEN @ ELSE numPlus(@, abs(amount)),
                  !.netAmount = numPlus(@, amount),
                  !.transactionCount = @ + 1]
withSummary(acc, account) == IF absentIn(acc, account) THEN Append(acc, newSummary(account)) ELSE acc
\* one step of the reduce; the updates of an inherited name land on the
\* inherited object and not on acc
reduceStep(created, transaction) ==
  [i \in DOMAIN created |->
     IF created[i].account = transaction.account THEN counted(created[i], transaction.amount) ELSE created[i]]
RECURSIVE reduceFrom(_, _)
reduceFrom(acc, stored) ==
  IF stored = <<>> THEN acc
  ELSE reduceFrom(reduceStep(withSummary(acc, Head(stored).account), Head(stored)), Tail(stored))
\* Object.values(summaries): the own summaries in insertion order
getAccountSummaries(stored) == reduceFrom(<<>>, stored)

MaxStore == 2
MaxAdd == 2
StoreIds == {<<"k","3","j","9","x","2","m","1","q">>, <<"p","0","d","8","s","7","a","6","f">>}
TxPool ==
  {[id |-> <<"k","3","j","9","x","2","m","1","q">>, date |-> Day(2024, 1, 15), amount |-> Dec(125, 1), description |-> <<"S","h","o","p">>,
    account |-> <<"C","h","e","c","k","i","n","g">>, sourceFile |-> <<"a",".","c","s","v">>],
   [id |-> <<"p","0","d","8","s","7","a","6","f">>, date |-> Day(2024, 1, 15), amount |-> Int10(-40), description |-> <<"R","e","n","t">>,
    account |-> <<"S","a","v","i","n","g","s">>, sourceFile |-> <<"a",".","c","s","v">>],
   [id |-> <<"k","3","j","9","x","2","m","1","q">>, date |-> Day(2024, 2, 1), amount |-> Int10(7), description |-> <<"F","e","e">>,
    account |-> <<"c","o","n","s","t","r","u","c","t","o","r">>, sourceFile |-> <<"c","o","n","s","t","r","u","c","t","o","r",".","c","s","v">>]}
NewLists == UNION {[1..n -> TxPool] : n \in 1..MaxAdd}
SearchTerms == {<<>>, <<"S","a","v">>, <<"1","2">>}
AccountChoices == {<<"a","l","l">>, <<"C","h","e","c","k","i","n","g">>}
SortFields == {"date", "amount"}

\* the components other than the store are idle, and the store is empty
StoreInit ==
  /\ jsEngine \in Engines
  /\ DetectIdle
  /\ ParseIdle
  /\ UploadIdle
  /\ UtilIdle
  /\ SettleIdle
  /\ RestIdle
StoreFrame == UNCHANGED <<jsEngine, detectVars, parseVars, utilVars, settleVars, sessionVars, loggerVars, headerVars,
                          fileMappings, fileStatuses, clearTimers, runs, parseLog, addedFiles, settledFiles>>
Did(op, arg) == storeOp' = [op |-> op, arg |-> arg]
CallAddTransactions ==
  /\ \E newTransactions \in NewLists :
       /\ Len(transactions) + Len(newTransactions) <= MaxStore
       /\ transactions' = addTransactions(transactions, newTransactions)
       /\ Did("add", newTransactions)
  /\ UNCHANGED <<searchTerm, selectedAccount, sortField, sortDirection, filteredTransactions, accountSummaries>>
  /\ StoreFrame
CallDeleteTransaction ==
  /\ \E id \in StoreIds :
       /\ transactions' = deleteTransaction(transactions, id)
       /\ Did("delete", id)
  /\ UNCHANGED <<searchTerm, selectedAccount, sortField, sortDirection, filteredTransactions, accountSummaries>>
  /\ StoreFrame
SetSearchTerm ==
  /\ \E term \in SearchTerms : searchTerm' = term
  /\ Did("setting", <<>>)
  /\ UNCHANGED <<transactions, selectedAccount, sortField, sortDirection, filteredTransactions, accountSummaries>>
  /\ StoreFrame
SetSelectedAccount ==
  /\ \E account \in AccountChoices : selectedAccount' = account
  /\ Did("setting", <<>>)
  /\ UNCHANGED <<transactions, searchTerm, sortField, sortDirection, filteredTransactions, accountSummaries>>
  /\ StoreFrame
\* handleSort(field)
HandleSort ==
  /\ \E field \in SortFields :
       IF sortField = field
       THEN sortDirection' = (IF sortDirection = "asc" THEN "desc" ELSE "asc") /\ sortField' = sortField
       ELSE sortField' = field /\ sortDirection' = "desc"
  /\ Did("setting", <<>>)
  /\ UNCHANGED <<transactions, searchTerm, selectedAccount, filteredTransactions, accountSummaries>>
  /\ StoreFrame
\* TransactionTable renders: the useMemo computes filteredTransactions
Computed(view) ==
  /\ filteredTransactions' = view
  /\ transactions' = storeAfterView(transactions, searchTerm, selectedAccount, view)
RenderTransactionTable ==
  /\ Computed(viewOf(transactions, searchTerm, selectedAccount, sortField, sortDirection))
  /\ Did("view", <<>>)
  /\ UNCHANGED <<searchTerm, selectedAccount, sortField, sortDirection, accountSummaries>>
  /\ StoreFrame
\* AccountSummary renders
RenderAccountSummary ==
  /\ accountSummaries' = getAccountSummaries(transactions)
  /\ Did("summaries", <<>>)
  /\ UNCHANGED <<transactions, searchTerm, selectedAccount, sortField, sortDirection, filteredTransactions>>
  /\ StoreFrame
StoreNext ==
  \/ CallAddTransactions
  \/ CallDeleteTransaction
  \/ SetSearchTerm
  \/ SetSelectedAccount
  \/ HandleSort
  \/ RenderTransactionTable
  \/ RenderAccountSummary
SpecStore == StoreInit /\ [][StoreNext]_vars

(***************************************************************************)
(* The session written to a workbook and read back (exportUtils.ts,        *)
(* ImportExport.tsx)                                                       *)
(***************************************************************************)
\* Date.prototype.toLocaleDateString in the locales of the model
Locales == {"en-US", "en-GB"}
toLocaleDateString(date, locale) ==
  IF date.k # "day" THEN <<"I","n","v","a","l","i","d"," ","D","a","t","e">>
  ELSE IF locale = "en-US" THEN NatToString(date.m) \o <<"/">> \o NatToString(date.d) \o <<"/">> \o NatToString(date.y)
  ELSE Pad2(date.d) \o <<"/">> \o Pad2(date.m) \o <<"/">> \o NatToString(date.y)
\* transactions.map(t => ({Date: ..., Amount: ..., ...})) as the cells of the
\* sheet: texts, and for the amount the number the cell holds
exportRow(t, locale) ==
  [Date |-> Str(toLocaleDateString(t.date, locale)),
   Amount |-> t.amount,
   Description |-> Str(t.description),
   Account |-> Str(t.account),
   SourceFile |-> Str(t.sourceFile),
   Category |-> Str(<<>>)]
exportData(list, locale) == [i \in DOMAIN list |-> exportRow(list[i], locale)]
\* sheet_to_json: what a text cell of the file reads back as; a cell that
\* holds the empty text comes back as '' or is left out of the row object
ReadBacks(cell) == IF cell = Str(<<>>) THEN {cell, Null} ELSE {cell}
\* row.X || ''
orEmpty(cell) == IF Falsy(cell) THEN <<>> ELSE cell.s
\* parseFloat(row.Amount) || 0, row.Amount being the number of the cell
zeroIfFalsy(num) == IF isNaN(num) \/ num.m = 0 THEN Int10(0) ELSE num
importedAmountInt(amount) == zeroIfFalsy(parseInt(NumberToString(amount)))
importedAmount(amount) == zeroIfFalsy(parseFloat(NumberToString(amount)))
\* new Date(row.Date)
importedDate(dateEngine, cell) == IF cell.k = "str" THEN DateParse(dateEngine, cell.s) ELSE InvalidDate
\* one element of jsonData.map(...): read is what sheet_to_json made of the
\* text cells of the row
importRow(dateEngine, row, read, id) ==
  [id |-> id,
   date |-> importedDate(dateEngine, read.Date),
   amount |-> importedAmount(row.Amount),
   description |-> orEmpty(read.Description),
   account |-> orEmpty(read.Account),
   sourceFile |-> orEmpty(read.SourceFile)]
RowReads(row) ==
  [Date : ReadBacks(row.Date), Description : ReadBacks(row.Description),
   Account : ReadBacks(row.Account), SourceFile : ReadBacks(row.SourceFile)]
\* the lists importFromExcel can resolve with for the sheet
Imports(dateEngine, sheet) ==
  {[i \in DOMAIN sheet |-> importRow(dateEngine, sheet[i], reads[i], ids[i])] :
     reads \in {rs \in [DOMAIN sheet -> UNION {RowReads(sheet[i]) : i \in DOMAIN sheet}] :
                  \A i \in DOMAIN sheet : rs[i] \in RowReads(sheet[i])},
     ids \in [DOMAIN sheet -> StoreIds]}

MaxSession == 2
SessionPool ==
  TxPool \cup
  {[id |-> <<"p","0","d","8","s","7","a","6","f">>, date |-> Day(2024, 3, 4), amount |-> Dec(-5, 2), description |-> <<>>,
    account |-> <<>>, sourceFile |-> <<"b",".","x","l","s","x">>]}
SessionLists == SeqsUpTo(SessionPool, MaxSession)
\* a store that holds some transactions; nothing exported yet
SessionInit ==
  /\ jsEngine \in Engines
  /\ DetectIdle
  /\ ParseIdle
  /\ UtilIdle
  /\ SettleIdle
  /\ StoreIdle /\ SessionIdle /\ LoggerIdle /\ HeaderIdle
  /\ transactions \in SessionLists
  /\ fileMappings = <<>> /\ fileStatuses = <<>> /\ clearTimers = 0
  /\ runs = <<>> /\ parseLog = <<>> /\ addedFiles = <<>> /\ settledFiles = <<>>
SessionFrame == UNCHANGED <<jsEngine, detectVars, parseVars, utilVars, settleVars, storeVars, loggerVars, headerVars,
                            fileMappings, fileStatuses, clearTimers, runs, parseLog, addedFiles, settledFiles>>
\* handleExport: nothing is written when the store is empty
HandleExport ==
  /\ transactions # <<>>
  /\ \E locale \in Locales : xSheet' = exportData(transactions, locale)
  /\ xList' = transactions
  /\ xpc' = "exported"
  /\ UNCHANGED <<transactions, xImported>>
  /\ SessionFrame
\* handleImport of the file last written: the store is replaced by what
\* importFromExcel resolved with
HandleImport ==
  /\ xpc = "exported"
  /\ xImported' \in Imports(jsEngine, xSheet)
  /\ transactions' = xImported'
  /\ xpc' = "imported"
  /\ UNCHANGED <<xList, xSheet>>
  /\ SessionFrame
SessionNext == HandleExport \/ HandleImport
SpecSession == SessionInit /\ [][SessionNext]_vars

(***************************************************************************)
(* Logger (LoggingPanel.tsx)                                               *)
(***************************************************************************)
\* the 100 of 'Keep only last 100 logs'
LogLimit == 100
\* this.logs.unshift(logEntry), then the cut to the first 100
lastHundred(list) == IF Len(list) > LogLimit THEN SubSeq(list, Len(list) - LogLimit + 1, Len(list)) ELSE list
firstHundred(list) == IF Len(list) > LogLimit THEN SubSeq(list, 1, LogLimit) ELSE list
unshift(list, logEntry) == <<logEntry>> \o list
\* this.listeners.filter(l => l !== listener)
without(list, listener) == SelectSeq(list, LAMBDA l : l # listener)
\* notifyListeners: the listeners called
called(list) == {list[i] : i \in DOMAIN list}

\* the entry of a call: its level, and in place of its timestamp its
\* ordinal among the entries added since the last clearLogs
Levels == {"info", "warning", "error", "success"}
MaxAdds == 102
ListenerPool == {"setLogs1", "setLogs2"}
LoggerInit ==
  /\ jsEngine \in Engines
  /\ DetectIdle
  /\ ParseIdle
  /\ UploadIdle
  /\ UtilIdle
  /\ SettleIdle
  /\ RestIdle
LoggerFrame == UNCHANGED <<jsEngine, detectVars, parseVars, uploadVars, utilVars, settleVars, storeVars, sessionVars, headerVars>>
\* addLog(level, ...)
Added(level) ==
  /\ loggerLogs' = firstHundred(unshift(loggerLogs, [level |-> level, n |-> logOp.since + 1]))
  /\ notified' = called(listeners)
  /\ logOp' = [logOp EXCEPT !.op = level, !.since = @ + 1]
  /\ UNCHANGED listeners
  /\ LoggerFrame
CallInfo == logOp.since < MaxAdds /\ Added("info")
\* the other three levels, in the model only as the first entry after a clear
CallWarning == logOp.since < MaxAdds /\ loggerLogs = <<>> /\ Added("warning")
CallError == logOp.since < MaxAdds /\ loggerLogs = <<>> /\ Added("error")
CallSuccess == logOp.since < MaxAdds /\ loggerLogs = <<>> /\ Added("success")
CallClearLogs ==
  /\ loggerLogs' = <<>>
  /\ notified' = called(listeners)
  /\ logOp' = [logOp EXCEPT !.op = "clear", !.since = 0]
  /\ UNCHANGED listeners
  /\ LoggerFrame
\* subscribe(listener), by a listener that has no live subscription
CallSubscribe ==
  /\ \E listener \in ListenerPool \ logOp.live :
       /\ listeners' = Append(listeners, listener)
       /\ logOp' = [logOp EXCEPT !.op = "subscribe", !.live = @ \cup {listener}]
  /\ notified' = {}
  /\ UNCHANGED loggerLogs
  /\ LoggerFrame
\* the function subscribe(listener) returned runs
CallUnsubscribe ==
  /\ \E listener \in logOp.live :
       /\ listeners' = without(listeners, listener)
       /\ logOp' = [logOp EXCEPT !.op = "unsubscribe", !.live = @ \ {listener}]
  /\ notified' = {}
  /\ UNCHANGED loggerLogs
  /\ LoggerFrame
LoggerNext ==
  \/ CallInfo
  \/ CallWarning
  \/ CallError
  \/ CallSuccess
  \/ CallClearLogs
  \/ CallSubscribe
  \/ CallUnsubscribe
SpecLogger == LoggerInit /\ [][LoggerNext]_vars

(***************************************************************************)
(* The header-only detectColumns of the earlier parser                     *)
(***************************************************************************)
AnyText == Star(NotSet({"\n", "\r"}))
Between(a, b) == Cat(<<Lit(a), AnyText, Lit(b)>>)
\* const patterns = {date: ..., amount: ..., description: ..., account: ...}
earlierPatterns ==
  [date |-> Alt(<<Lit(<<"d","a","t","e">>), Lit(<<"t","i","m","e">>), Between(<<"t","r","a","n","s","a","c","t","i","o","n">>, <<"d","a","t","e">>), Between(<<"p","o","s","t","i","n","g">>, <<"d","a","t","e">>),
                  Between(<<"e","f","f","e","c","t","i","v","e">>, <<"d","a","t","e">>)>>),
   amount |-> Alt(<<Lit(<<"a","m","o","u","n","t">>), Lit(<<"v","a","l","u","e">>), Lit(<<"s","u","m">>), Lit(<<"t","o","t","a","l">>), Lit(<<"c","r","e","d","i","t">>), Lit(<<"d","e","b","i","t">>),
                    Between(<<"t","r","a","n","s","a","c","t","i","o","n">>, <<"a","m","o","u","n","t">>)>>),
   description |-> Alt(<<Lit(<<"d","e","s","c","r","i","p","t","i","o","n">>), Lit(<<"m","e","m","o">>), Lit(<<"d","e","t","a","i","l","s">>), Between(<<"t","r","a","n","s","a","c","t","i","o","n">>, <<"d","e","t","a","i","l","s">>),
                         Lit(<<"r","e","f","e","r","e","n","c","e">>), Lit(<<"p","a","r","t","i","c","u","l","a","r","s">>), Lit(<<"n","a","r","r","a","t","i","v","e">>)>>),
   account |-> Alt(<<Lit(<<"a","c","c","o","u","n","t">>), Between(<<"a","c","c">>, <<"n","o">>), Between(<<"a","c","c","o","u","n","t">>, <<"n","u","m","b","e","r">>),
                     Between(<<"a","c","c","o","u","n","t">>, <<"n","a","m","e">>)>>)]
\* Object.entries(patterns): the fields in the order they are written
FieldOrder == <<"date", "amount", "description", "account">>
\* the header texts of the model, and for each the fields whose pattern
\* tests true on header.trim().toLowerCase()
EarlierHeaders == {<<"D","a","t","e">>, <<" ","P","o","s","t","i","n","g"," ","D","a","t","e">>, <<"A","m","o","u","n","t">>, <<"M","e","m","o">>, <<"A","c","c","o","u","n","t"," ","T","o","t","a","l">>}
fieldsMatching(header) == {field \in Roles : TestSearch(earlierPatterns[field], toLowerCase(trim(header)))}
fieldsMatchingTable == [header \in EarlierHeaders |-> fieldsMatching(header)]
\* !columnMap[field]: true of a field not assigned, and of one assigned 0
notYet(columnMap, field) == columnMap[field] = -1 \/ columnMap[field] = 0
\* the for loop over the fields for one header: the first field that tests
\* true and is not set is assigned, and the loop breaks
takers(columnMap, matching) == {k \in DOMAIN FieldOrder : FieldOrder[k] \in matching /\ notYet(columnMap, FieldOrder[k])}
firstTaker(ks) == CHOOSE k \in ks : \A l \in ks : k <= l
assignedTo(columnMap, ks, index) == IF ks = {} THEN columnMap ELSE [columnMap EXCEPT ![FieldOrder[firstTaker(ks)]] = index]
\* headers.forEach((header, index) => ...), index 0-based
RECURSIVE forEachHeader(_, _, _)
forEachHeader(columnMap, headers, index) ==
  IF index >= Len(headers) THEN columnMap
  ELSE forEachHeader(assignedTo(columnMap, takers(columnMap, fieldsMatchingTable[headers[index + 1]]), index),
                     headers, index + 1)
earlierDetectColumns(headers) == forEachHeader(EmptyMap, headers, 0)

MaxHeaders == 3
EarlierHeaderRows == SeqsUpTo(EarlierHeaders, MaxHeaders) \ {<<>>}
HeaderInit ==
  /\ jsEngine \in Engines
  /\ DetectIdle
  /\ ParseIdle
  /\ UploadIdle
  /\ UtilIdle
  /\ SettleIdle
  /\ StoreIdle /\ SessionIdle /\ LoggerIdle
  /\ hpc = "input"
  /\ hHeaders \in EarlierHeaderRows
  /\ hOut = EmptyMap
CallEarlierDetectColumns ==
  /\ hpc = "input"
  /\ hOut' = earlierDetectColumns(hHeaders)
  /\ hpc' = "returned"
  /\ UNCHANGED <<jsEngine, detectVars, parseVars, uploadVars, utilVars, settleVars, storeVars, sessionVars, loggerVars, hHeaders>>
HeaderNext == CallEarlierDetectColumns
SpecHeader == HeaderInit /\ [][HeaderNext]_vars

(***************************************************************************)
(* Column detection: the properties checked under SpecDetect               *)
(***************************************************************************)
\* the roles of the returned map that sit on the same column as another role
sharedRoles(columnMap) ==
  {r \in Roles : columnMap[r] >= 0 /\ \E o \in Roles \ {r} : columnMap[o] = columnMap[r]}
\* the 0-based index of the leftmost header matching a pattern of the role, -1 if none
leftmostMatch(headers, field) ==
  LET hits == {p \in DOMAIN headers : matchesField(field, toLowerCase(trim(headers[p])))}
  IN IF hits = {} THEN -1 ELSE (CHOOSE p \in hits : \A q \in hits : p <= q) - 1

\* C1: the map returned by detectColumns never assigns the date role and the
\* amount role to the same column index.
C1_DateAmountDistinct ==
  dpc = "returned" => ~(dOut.map["date"] >= 0 /\ dOut.map["date"] = dOut.map["amount"])
\* a call in which the content-driven tier flags one column for both roles
C1_BothFlagged ==
  /\ dpc = "returned"
  /\ dOut.content["date"] >= 0
  /\ dOut.content["date"] = dOut.content["amount"]

\* C9: each tier of detectColumns only fills the roles the earlier tiers left
\* unassigned: a role of the content-driven tier keeps its index through the
\* header-pattern tier and smartGuess, a role of the header-pattern tier keeps
\* its index through smartGuess, and a role the header-pattern tier fills goes
\* to the leftmost header matching one of its patterns.
C9_TiersOnlyFill ==
  dpc = "returned" =>
    \A r \in Roles :
      /\ dOut.content[r] >= 0 => (dOut.header[r] = dOut.content[r] /\ dOut.map[r] = dOut.content[r])
      /\ dOut.header[r] >= 0 => dOut.map[r] = dOut.header[r]
      /\ dOut.content[r] < 0 => dOut.header[r] = leftmostMatch(dHeaders, r)
      /\ ~dOut.guessed => dOut.map[r] = dOut.header[r]
\* a call in which both later tiers had another column to offer for a role
\* the content-driven tier assigned: a header matching the role elsewhere,
\* and smartGuess running and finding the role elsewhere
C9_EarlierTierChallenged ==
  /\ dpc = "returned"
  /\ dOut.guessed
  /\ \E r \in Roles :
       /\ dOut.content[r] >= 0
       /\ leftmostMatch(dHeaders, r) \notin {-1, dOut.content[r]}
       /\ findIndex(dHeaders, r) \notin {-1, dOut.content[r]}

\* C10: in the map returned by detectColumns two roles share a column index
\* only as a last resort: then smartGuess ran, and at least one of the two
\* roles was assigned by smartGuess.
C10_SharedOnlyByGuess ==
  dpc = "returned" =>
    \A r, o \in Roles :
      (r # o /\ dOut.map[r] >= 0 /\ dOut.map[r] = dOut.map[o])
        => (dOut.guessed /\ (dOut.header[r] < 0 \/ dOut.header[o] < 0))
\* a call in which two roles share a column although smartGuess did not run
C10_SharedWithoutGuess ==
  /\ dpc = "returned"
  /\ ~dOut.guessed
  /\ sharedRoles(dOut.map) # {}

(***************************************************************************)
(* Parsing one file: the properties checked under SpecParse                *)
(***************************************************************************)
\* the decoded header row and data rows of a file whose grid has a first row
headersOf(f) == f.data.rows[1]
dataRowsOf(f) == Tail(f.data.rows)
\* an empty cell: absent, or a string with nothing but blanks in it
emptyCell(c) == c.k = "null" \/ (c.k = "str" /\ trim(c.s) = <<>>)
emptyRow(row) == \A i \in DOMAIN row : emptyCell(row[i])
\* a row whose cells are strings, numbers or empty
plainRow(row) == \A i \in DOMAIN row : row[i].k \in {"str", "num", "null"}
\* the parser got as far as calling detectColumns on the grid of the file
detectCalled(f) ==
  /\ decoderOf(f) # "none"
  /\ f.data.k = "rows"
  /\ Len(f.data.rows) >= 1
  /\ decoderOf(f) = "csv" => headersOf(f) # <<>>
\* what detectColumns returns for the grid of the file
detectionOf(dateEngine, f) == detectColumns(dateEngine, headersOf(f), sampleRows(dataRowsOf(f)))
\* extracting the row raises: the emptiness scan or a mapped cell meets a
\* value that cannot be converted to a string
rowRaises(row, columnMap) ==
  \/ everyEmpty(row, 1) = "throw"
  \/ /\ everyEmpty(row, 1) = "false"
     /\ \E r \in Roles : columnMap[r] >= 0 /\ StringThrows(At(row, columnMap[r]))
\* the positions of the rows that are neither skipped nor raise, in input order
RECURSIVE keptRows(_, _, _)
keptRows(dataRows, columnMap, p) ==
  IF p > Len(dataRows) THEN <<>>
  ELSE (IF everyEmpty(dataRows[p], 1) = "false" /\ ~rowRaises(dataRows[p], columnMap) THEN <<p>> ELSE <<>>)
       \o keptRows(dataRows, columnMap, p + 1)
RECURSIVE raisingRows(_, _, _)
raisingRows(dataRows, columnMap, p) ==
  IF p > Len(dataRows) THEN <<>>
  ELSE (IF rowRaises(dataRows[p], columnMap) THEN <<p>> ELSE <<>>)
       \o raisingRows(dataRows, columnMap, p + 1)

\* C3: for data rows whose cells are strings, numbers or empty, a row with
\* all cells empty produces no transaction and no failed-row record, and
\* every other row produces exactly one transaction or exactly one failed-row
\* record: a row is skipped only if it is entirely empty.
C3_SkippedOnlyIfEmpty ==
  (ppc = "settled" /\ pOut.ok /\ \A p \in DOMAIN dataRowsOf(pFile) : plainRow(dataRowsOf(pFile)[p]))
    => /\ Len(pOut.result.transactions) + Len(pOut.failedRows)
            = Cardinality({p \in DOMAIN dataRowsOf(pFile) : ~emptyRow(dataRowsOf(pFile)[p])})
       /\ \A j \in DOMAIN pOut.failedRows : ~emptyRow(pOut.failedRows[j].row)
\* a parse that skipped a row of zeros
C3_ZeroRowSkipped ==
  /\ ppc = "settled"
  /\ pOut.ok
  /\ dataRowsOf(pFile) = <<(<<Num(0), Num(0)>>)>>
  /\ pOut.result.transactions = <<>>
  /\ pOut.failedRows = <<>>

NoHeadersMessages == {"No headers found in CSV file"}
\* C7: on the CSV path and on the spreadsheet path, a decoded grid whose
\* header row is empty makes the parse fail with the NoHeaders failure
\* ('No headers found ...').
C7_EmptyHeaderIsNoHeaders ==
  (ppc = "settled" /\ decoderOf(pFile) # "none" /\ pFile.data.k = "rows"
     /\ Len(pFile.data.rows) >= 1 /\ headersOf(pFile) = <<>>)
    => (~pOut.ok /\ pOut.error \in NoHeadersMessages)
\* a workbook with an empty header row rejected for undetectable columns
C7_WorkbookEmptyHeader ==
  /\ ppc = "settled"
  /\ pOut.decoder = "xls"
  /\ pFile.data.k = "rows" /\ Len(pFile.data.rows) >= 2 /\ headersOf(pFile) = <<>>
  /\ pOut.error = "Could not detect date or amount columns. Please check your Excel format."

\* the name ends in a dot followed by ext, whatever the case of its letters
hasExtension(name, ext) ==
  /\ Len(name) > Len(ext)
  /\ toLowerCase(SubSeq(name, Len(name) - Len(ext), Len(name))) = <<".">> \o ext
\* the extension or the declared type of the file is one parseFile knows
recognized(f) ==
  \/ hasExtension(f.name, <<"c","s","v">>) \/ hasExtension(f.name, <<"x","l","s","x">>) \/ hasExtension(f.name, <<"x","l","s">>)
  \/ f.type = <<"t","e","x","t","/","c","s","v">>
  \/ includes(f.type, <<"s","p","r","e","a","d","s","h","e","e","t">>)
\* the messages of the unsupported-format error
UnsupportedMessages == {unsupportedMessage(extensionOf(name)) : name \in NamePool}
\* C8: parseFile fails with the unsupported-format error, invoking no
\* decoder, exactly when the extension of the file name is none of csv, xlsx,
\* xls and the declared type is neither 'text/csv' nor contains
\* 'spreadsheet'; in every other case exactly one decoder is invoked.
C8_UnsupportedIffUnrecognized ==
  ppc = "settled" =>
    /\ ~recognized(pFile) <=> (~pOut.ok /\ pOut.error \in UnsupportedMessages /\ pOut.decoder = "none")
    /\ recognized(pFile) => pOut.decoder \in {"csv", "xls"}
\* a file named csv, without a dot, of an unknown type, handed to the CSV decoder
C8_NameWithoutDot ==
  /\ ppc = "settled"
  /\ pFile.name = <<"c","s","v">>
  /\ pFile.type = <<"t","e","x","t","/","p","l","a","i","n">>
  /\ pOut.decoder = "csv"

(***************************************************************************)
(* The upload loop: the properties checked under SpecUpload                *)
(***************************************************************************)
\* the dropped file a file identifier stands for
fileOf(fid) == runs[fid[1]].files[fid[2]]
\* the elements of a sequence
Range(s) == {s[j] : j \in DOMAIN s}
\* the positions at which the parse of the file settled
settlesOf(fid) == {j \in DOMAIN settledFiles : settledFiles[j].file = fid}
\* the positions at which a parse of the file was started
startsOf(fid) == {j \in DOMAIN parseLog : parseLog[j] = [ev |-> "start", file |-> fid]}
\* the transactions the parses of the files of a sequence resolved with, one after the other
RECURSIVE resolvedTransactions(_)
resolvedTransactions(fids) ==
  IF fids = <<>> THEN <<>>
  ELSE LET j == CHOOSE k \in settlesOf(Head(fids)) : TRUE
       IN settledFiles[j].out.result.transactions \o resolvedTransactions(Tail(fids))
\* txs is a contiguous part of the store
storedTogether(txs) ==
  \E k \in 0..Len(transactions) :
    k + Len(txs) <= Len(transactions) /\ SubSeq(transactions, k + 1, k + Len(txs)) = txs

\* what detectColumns returns for the grids of the dropped files
detectionTable ==
  [ef \in Engines \X FilePool |->
     IF detectCalled(ef[2]) THEN detectionOf(ef[1], ef[2]) ELSE NoDetect] @@ <<>>

\* the messages of the NoDetectableColumns failure
NoColumnsMessages == {"Could not detect date or amount columns. Please check your CSV format.",
                      "Could not detect date or amount columns. Please check your Excel format."}
\* C2: on the CSV path and on the spreadsheet path, when detectColumns
\* assigns neither a date nor an amount column the parse is rejected with the
\* NoDetectableColumns failure before any data row is materialized: it
\* returns no transaction list, and the upload loop adds no transaction of
\* that file to the store.
C2_NoColumnsNothingAdded ==
  \A j \in DOMAIN settledFiles :
    LET fid == settledFiles[j].file
        out == settledFiles[j].out
        det == detectionTable[<<jsEngine, fileOf(fid)>>]
    IN (detectCalled(fileOf(fid)) /\ ~det.threw /\ det.map["date"] < 0 /\ det.map["amount"] < 0)
         => /\ ~out.ok
            /\ out.error \in NoColumnsMessages
            /\ out.visited = 0
            /\ out.result.transactions = <<>>
            /\ out.failedRows = <<>>
            /\ fid \notin Range(addedFiles)
            /\ \A k \in DOMAIN transactions : transactions[k].sourceFile # fileOf(fid).name
\* both decoders have rejected a file in which no date and no amount column is found
C2_BothPathsRejected ==
  \E j, k \in DOMAIN settledFiles :
    /\ settledFiles[j].out.decoder = "csv"
    /\ settledFiles[j].out.error \in NoColumnsMessages
    /\ Len(fileOf(settledFiles[j].file).data.rows) = 2
    /\ settledFiles[k].out.decoder = "xls"
    /\ settledFiles[k].out.error \in NoColumnsMessages
    /\ Len(fileOf(settledFiles[k].file).data.rows) = 2

C6_SequentialInOrder ==
  /\ \A b \in DOMAIN runs :
       LET OfRun(e) == e.file[1] = b
           AddedOfRun(fid) == fid[1] = b
           events == SelectSeq(parseLog, OfRun)
           added == SelectSeq(addedFiles, AddedOfRun)
       IN /\ \A k \in DOMAIN events :
               /\ events[k].ev = (IF k % 2 = 1 THEN "start" ELSE "settle")
               /\ events[k].file[2] = (k + 1) \div 2
          /\ \A k, l \in DOMAIN added : k < l => added[k][2] < added[l][2]
  /\ transactions = resolvedTransactions(addedFiles)
\* a finished batch of two files whose transactions are both in the store
C6_TwoFilesAdded ==
  \E b \in DOMAIN runs :
    /\ runs[b].pc = "done"
    /\ <<b, 1>> \in Range(addedFiles)
    /\ <<b, 2>> \in Range(addedFiles)
    /\ Len(transactions) >= 2
    /\ transactions[1].id # transactions[2].id

(***************************************************************************)
(* The transactions built and the diagnostics of a parse (SpecParse)       *)
(***************************************************************************)
\* the name of a file up to, and without, its last dot; a name without one,
\* or ending in one, is kept as it is
withoutFinalExtension(name) ==
  IF \E p \in 1..(Len(name) - 1) : name[p] = "." /\ \A q \in (p + 1)..Len(name) : name[q] # "."
  THEN SubSeq(name, 1, (CHOOSE p \in 1..(Len(name) - 1) : name[p] = "." /\ \A q \in (p + 1)..Len(name) : name[q] # ".") - 1)
  ELSE name

\* C11: every transaction a parse produces takes the documented default for
\* each role the column map leaves unassigned: the current date, the amount
\* 0, the description 'Transaction k' with k the 1-based position of its row
\* among the data rows, the file name without its final extension as the
\* account; and its sourceFile is the file name.
C11_DefaultsForUnassigned ==
  (ppc = "settled" /\ pOut.ok)
    => LET columnMap == pOut.columnMap
           kept == keptRows(dataRowsOf(pFile), columnMap, 1)
           txs == pOut.result.transactions
       IN /\ Len(txs) = Len(kept)
          /\ \A j \in DOMAIN txs :
               /\ txs[j].sourceFile = pFile.name
               /\ columnMap["date"] < 0 => txs[j].date.k = "now"
               /\ columnMap["amount"] < 0 => txs[j].amount = Int10(0)
               /\ columnMap["description"] < 0 => txs[j].description = <<"T","r","a","n","s","a","c","t","i","o","n"," ">> \o NatToString(kept[j])
               /\ columnMap["account"] < 0 => txs[j].account = withoutFinalExtension(pFile.name)
\* a parse that found an amount column only, skipped its first data row and
\* built the transaction of the second with the defaults of the other roles
C11_SecondRowDefaults ==
  /\ ppc = "settled"
  /\ pOut.ok
  /\ pOut.columnMap["date"] < 0
  /\ pOut.columnMap["description"] < 0
  /\ pOut.columnMap["account"] < 0
  /\ Len(dataRowsOf(pFile)) = 2
  /\ Len(pOut.result.transactions) = 1
  /\ pOut.result.transactions[1].description = <<"T","r","a","n","s","a","c","t","i","o","n"," ","2">>
  /\ pOut.result.transactions[1].account = <<"a">>
  /\ pOut.result.transactions[1].date.k = "now"

fallbackRows(f, out) ==
  LET kept == keptRows(dataRowsOf(f), out.columnMap, 1)
  IN {kept[j] : j \in {i \in DOMAIN kept :
                         /\ out.columnMap["date"] >= 0
                         /\ trim(String(At(dataRowsOf(f)[kept[i]], out.columnMap["date"]))) # <<>>
                         /\ out.result.transactions[i].date.k = "now"}}
\* C17: whenever parseDate falls back to the current time for a non-empty
\* date cell of a row, a 'Date parsing fallback used' warning is logged for
\* that row, however much time passes between the call and the check.
C17_FallbackWarned ==
  (ppc = "settled" /\ pOut.ok)
    => \A p \in fallbackRows(pFile, pOut) :
         \E l \in DOMAIN pOut.logs :
           pOut.logs[l].message = "Date parsing fallback used" /\ pOut.logs[l].rowIndex = p
\* a parse that dated a row with the current time for an unparseable date
\* cell and logged nothing
C17_FallbackUnwarned ==
  /\ ppc = "settled"
  /\ pOut.ok
  /\ fallbackRows(pFile, pOut) # {}
  /\ pOut.logs = <<>>

(***************************************************************************)
(* The identifiers of the stored transactions (SpecUpload)                 *)
(***************************************************************************)
\* C18: transaction identifiers are unique: no two transactions in the
\* store have the same id.
C18_UniqueIds ==
  \A i, j \in DOMAIN transactions : i # j => transactions[i].id # transactions[j].id
\* two files were ingested and the store holds two transactions with one id
C18_SameIdStored ==
  /\ Len(addedFiles) = 2
  /\ Len(transactions) = 2
  /\ transactions[1].id = transactions[2].id
  /\ transactions[1].sourceFile = transactions[2].sourceFile

SignedDecimalRe ==
  Cat(<<Opt(Set(Sign)),
        Alt(<<Cat(<<Plus(Set(Digit)), Opt(Cat(<<Lit(<<".">>), Star(Set(Digit))>>))>>),
              Cat(<<Lit(<<".">>), Plus(Set(Digit))>>)>>)>>)
\* what is left of a string once the currency symbols, the commas and the
\* whitespace are stripped, and then one pair of enclosing parentheses
withoutParentheses(c) ==
  IF Len(c) >= 2 /\ c[1] = "(" /\ c[Len(c)] = ")" THEN SubSeq(c, 2, Len(c) - 1) ELSE c
remainderOf(s) == withoutParentheses(SelectSeq(s, LAMBDA ch : ch \notin Currency \cup {","} \cup Whitespace))

\* C13: parseAmount returns a number as it is, 0 for an empty value, and,
\* for a string, 0 whenever what is left after stripping currency symbols,
\* commas, whitespace and one pair of enclosing parentheses is not entirely
\* a signed decimal numeral.
C13_ParseAmountContract ==
  (uFn = "parseAmount" /\ upc = "returned")
    => /\ uArg.k = "num" => uRet = Int10(uArg.n)
       /\ emptyCell(uArg) => uRet = Int10(0)
       /\ (uArg.k = "str" /\ ~TestFull(SignedDecimalRe, remainderOf(uArg.s))) => uRet = Int10(0)
\* parseAmount returned 1 for the string '1a'
C13_PrefixTaken ==
  /\ uFn = "parseAmount"
  /\ upc = "returned"
  /\ uArg = Str(<<"1","a">>)
  /\ uRet = Int10(1)

\* the values of the sample, the first min(10, |values|), that match a
\* numeric, currency or accounting-parenthesis pattern
numericInSample(values) == Cardinality({i \in 1..Min(10, Len(values)) : isNumericValue(values[i])})
\* C14: isLikelyAmountColumn(values) is true exactly when the sample is not
\* empty and at least 80% of its values match a numeric pattern.
C14_AtLeastEightyPercent ==
  (uFn = "isLikelyAmountColumn" /\ upc = "returned")
    => (uRet <=> (Len(uArg) > 0 /\ 10 * numericInSample(uArg) >= 8 * Min(10, Len(uArg))))
\* isLikelyAmountColumn returned false for a column with 4 numeric values of 5
C14_FourOfFiveRefused ==
  /\ uFn = "isLikelyAmountColumn"
  /\ upc = "returned"
  /\ Len(uArg) = 5
  /\ numericInSample(uArg) = 4
  /\ uRet = FALSE

\* a value is date-like: its text matches a signature of the format table,
\* or parses directly to a year in 1900..2100
dateLike(dateEngine, value) ==
  /\ ~Falsy(value)
  /\ \/ \E i \in DOMAIN datePatterns : PatternTest(datePatterns[i], trim(String(value)))
     \/ LET parsed == DateParse(dateEngine, trim(String(value)))
        IN parsed.k = "day" /\ parsed.y >= 1900 /\ parsed.y <= 2100
dateLikeInSample(dateEngine, values) ==
  Cardinality({i \in 1..Min(10, Len(values)) : dateLike(dateEngine, values[i])})
\* C15: isLikelyDateColumn(values) is true exactly when at least 70% of the
\* sampled values are date-like; it is false whenever fewer are.
C15_AtLeastSeventyPercent ==
  (uFn = "isLikelyDateColumn" /\ upc = "returned")
    => (uRet <=> (Len(uArg) > 0 /\ 10 * dateLikeInSample(jsEngine, uArg) >= 7 * Min(10, Len(uArg))))
\* isLikelyDateColumn returned true for a column of two values, one a date
C15_HalfAccepted ==
  /\ uFn = "isLikelyDateColumn"
  /\ upc = "returned"
  /\ Len(uArg) = 2
  /\ dateLikeInSample(jsEngine, uArg) = 1
  /\ uRet = TRUE

\* C16: parseDate returns the calendar day a text encodes, whichever of the
\* six encodings it is written in, a slash-separated text being read by the
\* first matching entry of the format table (month first) unless its first
\* field exceeds 12, when it is read as day/month/year.
C16_SameDayEveryEncoding ==
  (uFn = "parseDate" /\ upc = "returned")
    => \A day \in CalendarDays, e \in Encodings :
         (uArg = Str(encode(day, e)) /\ (e = "dd/mm/yyyy" => day[3] > 12))
           => uRet = Day(day[1], day[2], day[3])
\* parseDate returned 1 March 2025 for '15/01/2024'
C16_DayReadAsMonth ==
  /\ uFn = "parseDate"
  /\ upc = "returned"
  /\ uArg = Str(<<"1","5","/","0","1","/","2","0","2","4">>)
  /\ uRet = Day(2025, 3, 1)

(***************************************************************************)
(* The settling of the ingestion promises (SpecSettle)                     *)
(***************************************************************************)
\* C20: every call of parseCSV, parseXLS, parseFile and importFromExcel
\* eventually resolves or rejects, whether the read of the file completes
\* or reports an error; no promise stays pending forever.
C20_EventuallySettles == <>(sPromise \in {"resolved", "rejected"})
\* a read of importFromExcel has failed and its promise is still pending
C20_ImportLeftPending ==
  /\ sCall = "importFromExcel"
  /\ sIo = "failed"
  /\ sPromise = "pending"

(***************************************************************************)
(* The content tier and the indexes of the map (SpecDetect)                *)
(***************************************************************************)
\* the column indexes of the headers
columnsOf(headers) == 0..(Len(headers) - 1)
\* the confidence score of the column of index c
confidenceOf(dateEngine, headers, data, c) ==
  calculateConfidence(dateEngine, columnValues(data, c), headers[c + 1])
\* c is the leftmost of the columns of highest confidence among flagged
leftmostBest(dateEngine, headers, data, flagged, c) ==
  /\ c \in flagged
  /\ \A o \in flagged :
       \/ confidenceOf(dateEngine, headers, data, c) > confidenceOf(dateEngine, headers, data, o)
       \/ (confidenceOf(dateEngine, headers, data, c) = confidenceOf(dateEngine, headers, data, o) /\ c <= o)
dateFlagged(dateEngine, headers, data) ==
  {c \in columnsOf(headers) : isLikelyDateColumn(dateEngine, columnValues(data, c))}
amountFlagged(headers, data) ==
  {c \in columnsOf(headers) : isLikelyAmountColumn(columnValues(data, c))}
descriptionFlagged(dateEngine, headers, data) ==
  {c \in columnsOf(headers) : isLikelyDescriptionColumn(dateEngine, columnValues(data, c))}

\* C23: with at least one sample row, the content tier assigns date, and
\* amount, to the column flagged for the role with the highest confidence,
\* the leftmost on ties, whatever the headers say; and description the same
\* way among the description-flagged columns other than those two.
C23_ContentTierChoice ==
  (dpc = "returned" /\ Len(dData) > 0 /\ ~dOut.threw)
    => LET dates == dateFlagged(jsEngine, dHeaders, dData)
           amounts == amountFlagged(dHeaders, dData)
           descriptions == descriptionFlagged(jsEngine, dHeaders, dData)
                             \ {dOut.content["date"], dOut.content["amount"]}
       IN /\ dates # {} => leftmostBest(jsEngine, dHeaders, dData, dates, dOut.content["date"])
          /\ amounts # {} => leftmostBest(jsEngine, dHeaders, dData, amounts, dOut.content["amount"])
          /\ descriptions # {} => leftmostBest(jsEngine, dHeaders, dData, descriptions, dOut.content["description"])
          /\ dates # {} => dOut.map["date"] = dOut.content["date"]
          /\ amounts # {} => dOut.map["amount"] = dOut.content["amount"]
\* two columns of dates under the same header, of equal confidence: the
\* left one was chosen
C23_TieGoesLeft ==
  /\ dpc = "returned"
  /\ Len(dHeaders) = 2
  /\ dHeaders[1] = dHeaders[2]
  /\ dateFlagged(jsEngine, dHeaders, dData) = {0, 1}
  /\ dOut.content["date"] = 0

\* C29: every index of the map detectColumns returns is a header position,
\* 0 <= index < number of headers, whichever tier assigned it; and an empty
\* header list gives an empty map.
C29_IndexesValid ==
  (dpc = "returned" /\ ~dOut.threw)
    => /\ \A r \in Roles : dOut.map[r] >= 0 => dOut.map[r] \in columnsOf(dHeaders)
       /\ \A r \in Roles : dOut.map[r] >= -1
       /\ dHeaders = <<>> => dOut.map = EmptyMap
\* a call in which smartGuess assigned a role to the last of two headers
C29_LastHeaderGuessed ==
  /\ dpc = "returned"
  /\ Len(dHeaders) = 2
  /\ dOut.guessed
  /\ \E r \in Roles : dOut.header[r] < 0 /\ dOut.map[r] = 1

(***************************************************************************)
(* The mappings and the statuses of the upload area (SpecUpload)           *)
(***************************************************************************)
\* C24: fileMappings grows by one entry per successfully ingested file, in
\* the order of the files: no mapping written for an earlier file of a batch
\* is lost when a later file of the batch completes.
C24_OneMappingPerFile ==
  /\ Len(fileMappings) = Len(addedFiles)
  /\ \A j \in DOMAIN fileMappings : fileMappings[j].fileName = fileOf(addedFiles[j]).name
\* one batch of two files is over, both were ingested, one mapping is left
C24_MappingLost ==
  /\ Len(runs) = 1
  /\ runs[1].pc = "done"
  /\ addedFiles = <<(<<1, 1>>), (<<1, 2>>)>>
  /\ Len(fileMappings) = 1

\* C25: the status entry of a file stays in fileStatuses until the file has
\* reached success or error: no step removes an entry whose status is
\* 'uploading', be it the drop of a second batch or the clear timer of an
\* earlier one.
C25_UploadingEntryStays ==
  [][\A j \in DOMAIN fileStatuses :
       fileStatuses[j].status = "uploading"
         => \E k \in DOMAIN fileStatuses' : fileStatuses'[k].file = fileStatuses[j].file]_vars
\* a run waits for the decoder of a file that has no status entry any more
C25_AwaitedWithoutEntry ==
  \E b \in DOMAIN runs :
    /\ runs[b].pc = "await"
    /\ \A j \in DOMAIN fileStatuses : fileStatuses[j].file # <<b, runs[b].i>>

\* C26: computing the filtered and sorted view leaves the store's
\* transactions array as it was, in content and in order
C26_ViewKeepsStore == [][storeOp'.op = "view" => transactions' = transactions]_vars
\* the view was computed with no filter set, and the store now holds the
\* later transaction first
C26_StoreReordered ==
  /\ storeOp.op = "view"
  /\ ~filterApplies(searchTerm, selectedAccount)
  /\ sortField = "date" /\ sortDirection = "desc"
  /\ Len(transactions) = 2
  /\ transactions = filteredTransactions
  /\ getTime(transactions[1].date) > getTime(transactions[2].date)

\* the positions of prev that deleteTransaction(id) must keep, and the
\* j-th of them
keptPositions(prev, id) == {i \in DOMAIN prev : prev[i].id # id}
keptAt(prev, id, j) ==
  CHOOSE i \in keptPositions(prev, id) : Cardinality({k \in keptPositions(prev, id) : k <= i}) = j
\* C27: deleteTransaction(id) removes exactly the transactions with that id
\* and keeps the others as they were and in their order; addTransactions(list)
\* appends the list after the transactions already stored
C27_StoreOperations ==
  [][/\ storeOp'.op = "delete" =>
          /\ Len(transactions') = Cardinality(keptPositions(transactions, storeOp'.arg))
          /\ \A j \in DOMAIN transactions' : transactions'[j] = transactions[keptAt(transactions, storeOp'.arg, j)]
          /\ ((\A i \in DOMAIN transactions : transactions[i].id # storeOp'.arg) => transactions' = transactions)
     /\ storeOp'.op = "add" =>
          /\ Len(transactions') = Len(transactions) + Len(storeOp'.arg)
          /\ \A i \in DOMAIN transactions : transactions'[i] = transactions[i]
          /\ \A j \in DOMAIN storeOp'.arg : transactions'[Len(transactions) + j] = storeOp'.arg[j]]_vars
\* a delete has removed the transactions of one id and kept the other one
C27_DeletedOneOfTwo ==
  /\ storeOp = [op |-> "delete", arg |-> <<"k","3","j","9","x","2","m","1","q">>]
  /\ Len(transactions) = 1
  /\ transactions[1].id = <<"p","0","d","8","s","7","a","6","f">>

\* C22: getAccountSummaries returns one summary per distinct account of the
\* stored transactions, each counting the transactions of its account, with
\* netAmount = totalIncome - totalExpenses, and the counts add up to the
\* number of stored transactions
RECURSIVE countSum(_)
countSum(summaries) == IF summaries = <<>> THEN 0 ELSE Head(summaries).transactionCount + countSum(Tail(summaries))
C22_SummaryPerAccount ==
  storeOp.op = "summaries" =>
    /\ {accountSummaries[i].account : i \in DOMAIN accountSummaries} = {transactions[i].account : i \in DOMAIN transactions}
    /\ Len(accountSummaries) = Cardinality({transactions[i].account : i \in DOMAIN transactions})
    /\ \A i \in DOMAIN accountSummaries :
         /\ accountSummaries[i].transactionCount
              = Cardinality({k \in DOMAIN transactions : transactions[k].account = accountSummaries[i].account})
         /\ accountSummaries[i].netAmount
              = numPlus(accountSummaries[i].totalIncome, Negate(accountSummaries[i].totalExpenses))
    /\ countSum(accountSummaries) = Len(transactions)
\* summaries were computed over a store that holds a transaction, and there
\* is no summary
C22_AccountOmitted == storeOp.op = "summaries" /\ transactions # <<>> /\ accountSummaries = <<>>

(***************************************************************************)
(* The session round trip (SpecSession)                                    *)
(***************************************************************************)
\* C21: importing what exportToExcel wrote for a list T yields a list of the
\* same length and order, in which every transaction has the amount, the
\* description, the account and the sourceFile of its counterpart in T
C21_RoundTrip ==
  xpc = "imported" =>
    /\ Len(xImported) = Len(xList)
    /\ \A i \in DOMAIN xList :
         /\ xImported[i].amount = xList[i].amount
         /\ xImported[i].description = xList[i].description
         /\ xImported[i].account = xList[i].account
         /\ xImported[i].sourceFile = xList[i].sourceFile
\* a list of two came back, one with a fractional amount and one with an
\* empty description, under fresh ids
C21_TwoReadBack ==
  /\ xpc = "imported"
  /\ Len(xImported) = 2
  /\ xList[1].amount = Dec(125, 1)
  /\ xList[2].description = <<>>
  /\ xImported[1].id # xList[1].id

(***************************************************************************)
(* Logger (SpecLogger)                                                     *)
(***************************************************************************)
\* C28: the log holds at most 100 entries, newest first, and they are the
\* most recent (up to 100) entries added since the last clearLogs; every
\* call that adds or clears notifies every listener whose subscription is
\* live, and no listener whose unsubscribe function has run
C28_LoggerContract ==
  /\ Len(loggerLogs) <= 100
  /\ Len(loggerLogs) = Min(logOp.since, 100)
  /\ \A i \in DOMAIN loggerLogs : loggerLogs[i].n = logOp.since - i + 1
  /\ logOp.op \in Levels \cup {"clear"} => notified = logOp.live
  /\ logOp.op \in Levels => loggerLogs[1].level = logOp.op
\* 101 entries were added since the last clear, the first of them a warning
\* that is no longer held, and the one listener subscribed was notified
C28_OldestDropped ==
  /\ logOp.since = 101
  /\ Len(loggerLogs) = 100
  /\ \A i \in DOMAIN loggerLogs : loggerLogs[i].level = "info"
  /\ logOp.live = {"setLogs2"}
  /\ notified = {"setLogs2"}

(***************************************************************************)
(* The header-only detectColumns (SpecHeader)                              *)
(***************************************************************************)
\* what the headers left of position p leave assigned when a role, once
\* assigned, stays with its header: each header claims the first role, in
\* the order of the patterns, that it matches and that no header has yet
RECURSIVE claimsUpTo(_, _)
claimsUpTo(headers, p) ==
  IF p = 0 THEN EmptyMap
  ELSE LET before == claimsUpTo(headers, p - 1)
           open == {k \in DOMAIN FieldOrder : FieldOrder[k] \in fieldsMatching(headers[p]) /\ before[FieldOrder[k]] = -1}
       IN IF open = {} THEN before
          ELSE [before EXCEPT ![FieldOrder[CHOOSE k \in open : \A l \in open : k <= l]] = p - 1]
\* C30: each role goes to the leftmost header that claims it and is never
\* reassigned to a later header, also when it was assigned to column 0; each
\* header claims at most one role
C30_LeftmostKeepsRole ==
  hpc = "returned" =>
    /\ hOut = claimsUpTo(hHeaders, Len(hHeaders))
    /\ \A r1, r2 \in Roles : (hOut[r1] >= 0 /\ hOut[r1] = hOut[r2]) => r1 = r2
\* headers 'Date', ' Posting Date': the date role ended on the second one
C30_DateMovedRight ==
  /\ hpc = "returned"
  /\ hHeaders = <<<<"D","a","t","e">>, <<" ","P","o","s","t","i","n","g"," ","D","a","t","e">>>>
  /\ hOut["date"] = 1
====
